---- MODULE Spec2Model ----
(***************************************************************************)
(* Model of the ghost controller (src/ghost/ghost.py): the edge-to-gesture *)
(* classifier input_monitor(), the event queue it feeds, and the event     *)
(* dispatcher with the state manager.                                      *)
(*                                                                         *)
(* Time is counted in milliseconds.  The program only ever compares a      *)
(* difference of two clock readings with a constant, so every timestamp X  *)
(* the code stores is kept as its age (now - X) and every deadline D as    *)
(* the time remaining (D - now).  Ages saturate at the largest constant    *)
(* they are compared with, remaining times at 0; a Python None is -1.      *)
(*                                                                         *)
(* The classifier thread is taken to process an edge at the instant the    *)
(* GPIO callback queued it (edge_queue.get returns as soon as an edge is   *)
(* there), so an edge's timestamp t equals time.monotonic() read while it  *)
(* is processed.                                                           *)
(***************************************************************************)
EXTENDS Integers, Sequences, FiniteSets, TLC

Btn == {"B1", "B2"}
Other(b) == IF b = "B1" THEN "B2" ELSE "B1"
None == -1

\* ---- program constants (milliseconds) ----
MIN_PULSE_MS == 20
TAP_DECISION == 700
HOLD_MS_BY_BTN == [B1 |-> 800, B2 |-> 3000]
CHORD_GRACE_MS == 180
CHORD_TAP_SUPPRESS_WINDOW == 750
hold_cooldown_sec == 1500
CHORD_TIMEOUT == 1000
RESYNC_SAMPLE_MS == 30
RESYNC_COOLDOWN_MS == 120
GET_TIMEOUT == 50
HOLD_TAP_IGNORE_SEC == 2000
VOLUME_HIGH == 255
VOLUME_LOW == 100

\* ---- gesture names, as posted on event_queue ----
TAP == [B1 |-> "B1_TAP", B2 |-> "B2_TAP"]
DOUBLE == [B1 |-> "B1_DOUBLE", B2 |-> "B2_DOUBLE"]
FIVETAP == [B1 |-> "B1_5TAP", B2 |-> "B2_5TAP"]
HOLD == [B1 |-> "B1_HOLD", B2 |-> "B2_HOLD"]
CHORD == "B1B2_CHORD"
Gestures == {TAP[b] : b \in Btn} \cup {DOUBLE[b] : b \in Btn} \cup {FIVETAP[b] : b \in Btn}
              \cup {HOLD[b] : b \in Btn} \cup {CHORD}

\* ---- bounds of the model ----
\* level changes the environment makes in one run
MaxChanges == 4
\* pulses of a tapping run
MaxPulses == 6
\* taps made before a chord
MaxPreTaps == 1
\* gestures waiting in the event queue of the dispatcher
MaxQueue == 1
\* the count of power-off commands is kept up to this value
MaxPowerOffs == 2
\* the greatest value that a roll of a die gives
MaxRoll == 2
\* frames of a column and columns of a sprite sheet in the runs of the
\* Sing, Quip and Story bodies
FramesPerColumn == 3
NumColumns == 2
\* the counts of segments started and of frames shown with the interrupt
\* flag raised are kept up to these values
MaxSegments == 2
MaxLate == 2
\* items of the pool of the shuffler, calls made on it, and the pick index
\* that stands for the "long ago" of a fresh shuffler (10**9 in the source)
PoolSize == 2
MaxPicks == 20
LongAgo == 1000
\* calls of play_audio made in a run
MaxPlays == 3
\* level changes of a run in which every interrupt can be lost
MaxLost == 4

VARIABLES
  \* input_monitor locals
  down, press_time, tap_count, decide_at, tap_suppress_until,
  chord_armed, chord_pending, chord_detect_time,
  \* module globals written by input_monitor
  last_hold_time, last_chord_time,
  \* resync attributes of input_monitor
  last_raw, raw_stable_since, last_synth_time,
  \* queues
  edge_queue, event_queue,
  \* remaining time of the blocking edge_queue.get of the input_monitor loop
  get_left,
  \* the latest loop iteration: the edge it took and the classifier state
  \* before the edge and after each of its steps
  it,
  \* environment: raw GPIO levels, time to the next level change, the level
  \* changes of this run (for each the buttons and delays to choose from and
  \* whether its interrupt may be missed) and how many of them are done
  raw, env_wait, plan, done,
  \* manager.state (the class of the active state), whether manager.thread
  \* is alive, the interrupt_requested event, manager.next_state, the volume
  state, alive, interrupt_requested, next_state, current_volume,
  \* for how long the active state has been active if it is Idle, in whole
  \* multiples of IDLE_TIMEOUT (up to two of them)
  idle_for,
  \* the attributes of the active SleepState, DiceState or ShutdownState
  \* object (shutdown also counts the power-off commands issued so far)
  sleep, dice, shutdown,
  \* the locals of run() of the active Sing, Quip or Story state and of its
  \* animation and audio threads
  anim,
  \* main thread: where it is in the scheduler loop, the class that the
  \* set_state or cue in progress will enter, and where set_state returns to
  pc, target, cont,
  \* a WeightedHistoryShuffler object: its tallies, and the latest call made
  \* on it with the item it recorded
  shuffler,
  \* the module hw.audio (_play_proc, the player processes) and the calls of
  \* play_audio and stop in progress
  audio,
  \* the threads of the state bodies: whether manager.thread has been started
  \* and its run() has not begun yet, and how many run() bodies are executing
  mgr,
  \* the simulator build (SIM), where the scheduler loop calls run() itself:
  \* the class of the state whose run() is executing (manager._inline_running)
  \* and whether dispatch_events has been called from play_column
  sim

clsLocal == <<down, press_time, tap_count, decide_at, tap_suppress_until,
              chord_armed, chord_pending, chord_detect_time, last_chord_time,
              last_raw, raw_stable_since, last_synth_time>>
clsVars == <<clsLocal, last_hold_time>>
envVars == <<raw, env_wait, plan, done>>
monVars == <<edge_queue, get_left, it, envVars>>
dspVars == <<state, alive, interrupt_requested, next_state, current_volume, idle_for,
             sleep, dice, shutdown, anim, pc, target, cont>>
libVars == <<shuffler, audio, mgr, sim>>
vars == <<clsVars, event_queue, monVars, dspVars, libVars>>

Min(a, b) == IF a < b THEN a ELSE b
Abs(a) == IF a < 0 THEN -a ELSE a
Max(a, b) == IF a > b THEN a ELSE b

\* a timestamp kept as an age grows with time up to cap; None stays None
Older(age, d, cap) == IF age = None THEN None ELSE Min(age + d, cap)
\* a deadline kept as remaining time shrinks with time down to 0
Nearer(rem, d) == IF rem = None THEN None ELSE Max(rem - d, 0)

\* ---- the classifier state as one record, threaded through the steps ----
Cls ==
  [down |-> down, press_time |-> press_time, tap_count |-> tap_count,
   decide_at |-> decide_at, tap_suppress_until |-> tap_suppress_until,
   chord_armed |-> chord_armed, chord_pending |-> chord_pending,
   chord_detect_time |-> chord_detect_time,
   last_hold_time |-> last_hold_time, last_chord_time |-> last_chord_time,
   last_raw |-> last_raw, raw_stable_since |-> raw_stable_since,
   last_synth_time |-> last_synth_time,
   event_queue |-> event_queue]

Commit(c) ==
  /\ down' = c.down
  /\ press_time' = c.press_time
  /\ tap_count' = c.tap_count
  /\ decide_at' = c.decide_at
  /\ tap_suppress_until' = c.tap_suppress_until
  /\ chord_armed' = c.chord_armed
  /\ chord_pending' = c.chord_pending
  /\ chord_detect_time' = c.chord_detect_time
  /\ last_hold_time' = c.last_hold_time
  /\ last_chord_time' = c.last_chord_time
  /\ last_raw' = c.last_raw
  /\ raw_stable_since' = c.raw_stable_since
  /\ last_synth_time' = c.last_synth_time
  /\ event_queue' = c.event_queue

\* post_event via emit(): put the gesture on event_queue
emit(c, evt) == [c EXCEPT !.event_queue = Append(@, evt)]

\* chord_recent(): a chord was posted less than the suppress window ago
chord_recent(c) == c.last_chord_time < CHORD_TAP_SUPPRESS_WINDOW

\* variant of decide whose FiveTap needs more than five taps
decideSixForFiveTap(c, button) ==
  LET n == c.tap_count[button]
      c1 == [c EXCEPT !.tap_count[button] = 0, !.decide_at[button] = None]
  IN IF n > 5 THEN emit(c1, FIVETAP[button])
     ELSE IF n >= 2 THEN emit(c1, DOUBLE[button])
     ELSE IF n = 1 THEN emit(c1, TAP[button])
     ELSE c1

\* variant of decide that keeps the tally
decideKeepsTally(c, button) ==
  LET n == c.tap_count[button]
      c1 == [c EXCEPT !.decide_at[button] = None]
  IN IF n >= 5 THEN emit(c1, FIVETAP[button])
     ELSE IF n >= 2 THEN emit(c1, DOUBLE[button])
     ELSE IF n = 1 THEN emit(c1, TAP[button])
     ELSE c1

\* decide(button): translate the tally into a gesture and reset it
decide(c, button) ==
  LET n == c.tap_count[button]
      c1 == [c EXCEPT !.tap_count[button] = 0, !.decide_at[button] = None]
  IN  IF n >= 5 THEN emit(c1, FIVETAP[button])
      ELSE IF n >= 2 THEN emit(c1, DOUBLE[button])
      ELSE IF n = 1 THEN emit(c1, TAP[button])
      ELSE c1

\* chord detection on a press: both down and the press times close
ChordDetect(c, btn) ==
  LET other == Other(btn) IN
  IF c.down[other] /\ c.press_time[other] # None
       /\ Abs(c.press_time[btn] - c.press_time[other]) <= CHORD_GRACE_MS
       /\ c.chord_armed
  THEN [c EXCEPT !.chord_pending = TRUE, !.chord_detect_time = 0,
                 !.chord_armed = FALSE]
  ELSE c

\* a PRESS edge
ProcessPress(c, btn) ==
  ChordDetect([c EXCEPT !.down[btn] = TRUE, !.press_time[btn] = 0], btn)

\* variant of ChordRelease that leaves the tap tallies and deadlines alone
ChordReleaseKeepsTallies(c) ==
  IF ~c.down["B1"] /\ ~c.down["B2"]
  THEN LET c1 == IF c.chord_pending
                 THEN [emit(c, CHORD) EXCEPT !.last_chord_time = 0,
                                             !.chord_pending = FALSE,
                                             !.chord_detect_time = None]
                 ELSE c
       IN [c1 EXCEPT !.chord_armed = TRUE]
  ELSE c

\* once both buttons are up: post a pending chord, clear the tallies, re-arm
ChordRelease(c) ==
  IF ~c.down["B1"] /\ ~c.down["B2"]
  THEN LET c1 == IF c.chord_pending
                 THEN [emit(c, CHORD) EXCEPT
                         !.tap_count = [b \in Btn |-> 0],
                         !.decide_at = [b \in Btn |-> None],
                         !.last_chord_time = 0,
                         !.chord_pending = FALSE,
                         !.chord_detect_time = None]
                 ELSE c
       IN [c1 EXCEPT !.chord_armed = TRUE]
  ELSE c

\* variant of ClassifyHold that posts the Hold without asking chord_recent()
ClassifyHoldNoChordCheck(c, btn) ==
  emit([c EXCEPT !.tap_count[btn] = 0, !.decide_at[btn] = None,
                 !.tap_suppress_until[btn] = hold_cooldown_sec,
                 !.last_hold_time[btn] = 0], HOLD[btn])

\* HOLD branch of the pulse classification
ClassifyHold(c, btn) ==
  LET c1 == [c EXCEPT !.tap_count[btn] = 0, !.decide_at[btn] = None,
                      !.tap_suppress_until[btn] = hold_cooldown_sec,
                      !.last_hold_time[btn] = 0]
  IN  IF btn = "B1" /\ chord_recent(c1) THEN c1 ELSE emit(c1, HOLD[btn])

\* variant of ClassifyTap that ignores the post-hold cooldown
ClassifyTapNoCooldown(c, btn) ==
  IF ~c.chord_pending /\ ~chord_recent(c)
  THEN [c EXCEPT !.tap_count[btn] = @ + 1, !.decide_at[btn] = TAP_DECISION]
  ELSE c

\* variant of ClassifyTap that does not ask chord_recent()
ClassifyTapNoChordRecent(c, btn) ==
  IF ~c.chord_pending
  THEN IF c.tap_suppress_until[btn] = 0
       THEN [c EXCEPT !.tap_count[btn] = @ + 1, !.decide_at[btn] = TAP_DECISION]
       ELSE c
  ELSE c

\* tap branch of the pulse classification
ClassifyTap(c, btn) ==
  IF ~c.chord_pending /\ ~chord_recent(c)
  THEN IF c.tap_suppress_until[btn] = 0
       THEN [c EXCEPT !.tap_count[btn] = @ + 1, !.decide_at[btn] = TAP_DECISION]
       ELSE c
  ELSE c

\* classification of a pulse of pulse_ms on btn
Classify(c, btn, pulse_ms) ==
  IF pulse_ms < MIN_PULSE_MS THEN c
  ELSE IF pulse_ms >= HOLD_MS_BY_BTN[btn] THEN ClassifyHold(c, btn)
  ELSE ClassifyTap(c, btn)

\* variant of ProcessRelease whose release without a recorded press leaves the
\* tally and the deadline alone
ProcessReleaseOrphanKeepsTally(c, btn) ==
  IF c.press_time[btn] = None
  THEN [c EXCEPT !.down[btn] = FALSE, !.press_time[btn] = None]
  ELSE LET pulse_ms == c.press_time[btn]
           c1 == [c EXCEPT !.down[btn] = FALSE, !.press_time[btn] = None]
       IN Classify(ChordRelease(c1), btn, pulse_ms)

\* a RELEASE edge
ProcessRelease(c, btn) ==
  IF c.press_time[btn] = None
  THEN [c EXCEPT !.down[btn] = FALSE, !.press_time[btn] = None,
                 !.decide_at[btn] = None, !.tap_count[btn] = 0]
  ELSE LET pulse_ms == c.press_time[btn]
           c1 == [c EXCEPT !.down[btn] = FALSE, !.press_time[btn] = None]
       IN Classify(ChordRelease(c1), btn, pulse_ms)

ProcessEdge(c, e) ==
  IF e.is_press THEN ProcessPress(c, e.btn) ELSE ProcessRelease(c, e.btn)

\* step 3 for one button: a deadline that elapsed is decided or, shortly
\* after a chord, dropped
FinalizeOne(c, b) ==
  IF c.decide_at[b] # None /\ c.decide_at[b] = 0
  THEN IF c.last_chord_time < CHORD_TAP_SUPPRESS_WINDOW
       THEN [c EXCEPT !.tap_count[b] = 0, !.decide_at[b] = None]
       ELSE decide(c, b)
  ELSE c

Finalize(c) == FinalizeOne(FinalizeOne(c, "B1"), "B2")

\* variant of ChordTimeoutCheck that drops the pending chord without re-arming
ChordTimeoutCheckNoRearm(c) ==
  IF c.chord_pending /\ c.chord_detect_time # None /\ c.chord_detect_time > CHORD_TIMEOUT
  THEN [c EXCEPT !.chord_pending = FALSE, !.chord_detect_time = None]
  ELSE c

\* step 4: a chord pending for more than CHORD_TIMEOUT is discarded
ChordTimeoutCheck(c) ==
  IF c.chord_pending /\ c.chord_detect_time # None
       /\ c.chord_detect_time > CHORD_TIMEOUT
  THEN [c EXCEPT !.chord_pending = FALSE, !.chord_detect_time = None,
                 !.chord_armed = TRUE]
  ELSE c

\* step 4b: raw stability tracking
TrackRaw(c, raw_now) ==
  [c EXCEPT !.last_raw = raw_now,
            !.raw_stable_since =
               [b \in Btn |-> IF raw_now[b] # c.last_raw[b] THEN 0 ELSE @[b]]]

can_synthesize(c, btn) ==
  /\ c.raw_stable_since[btn] >= RESYNC_SAMPLE_MS
  /\ c.last_synth_time[btn] >= RESYNC_COOLDOWN_MS

\* synthesized PRESS
SynPress(c, btn) ==
  ChordDetect([c EXCEPT !.down[btn] = TRUE, !.press_time[btn] = 0,
                        !.last_synth_time[btn] = 0], btn)

\* variant of SynRelease that does not classify the pulse
SynReleaseNoClassify(c, btn) ==
  LET c1 == [c EXCEPT !.down[btn] = FALSE, !.last_synth_time[btn] = 0]
  IN  [ChordRelease(c1) EXCEPT !.press_time[btn] = None]

\* synthesized RELEASE
SynRelease(c, btn) ==
  LET press_at == IF c.press_time[btn] # None THEN c.press_time[btn] ELSE 0
      pulse_ms == Max(0, press_at)
      c1 == [c EXCEPT !.down[btn] = FALSE, !.last_synth_time[btn] = 0]
      c2 == Classify(ChordRelease(c1), btn, pulse_ms)
  IN  [c2 EXCEPT !.press_time[btn] = None]

\* variant of ResyncOne that synthesizes presses only
ResyncOnePressOnly(c, raw_now, btn) ==
  IF raw_now[btn] /\ ~c.down[btn] /\ can_synthesize(c, btn)
  THEN SynPress(c, btn) ELSE c

\* step 4b for one button: the missing press, then the missing release
ResyncOne(c, raw_now, btn) ==
  LET c1 == IF raw_now[btn] /\ ~c.down[btn] /\ can_synthesize(c, btn)
            THEN SynPress(c, btn) ELSE c
  IN  IF ~raw_now[btn] /\ c1.down[btn] /\ can_synthesize(c1, btn)
      THEN SynRelease(c1, btn) ELSE c1

Resync(c, raw_now) ==
  ResyncOne(ResyncOne(TrackRaw(c, raw_now), raw_now, "B1"), raw_now, "B2")

\* ---- passage of time ----
\* last_hold_time is read for B2 only (dispatch_events), so only its age counts
HoldAgeCap(b) == IF b = "B2" THEN HOLD_TAP_IGNORE_SEC ELSE 0

\* the classifier state d milliseconds later
Aged(c, d) ==
  [c EXCEPT
     !.press_time = [b \in Btn |-> Older(@[b], d, HOLD_MS_BY_BTN[b])],
     !.decide_at = [b \in Btn |-> Nearer(@[b], d)],
     !.tap_suppress_until = [b \in Btn |-> Nearer(@[b], d)],
     !.chord_detect_time = Older(@, d, CHORD_TIMEOUT + 1),
     !.last_hold_time = [b \in Btn |-> Older(@[b], d, HoldAgeCap(b))],
     !.last_chord_time = Older(@, d, CHORD_TAP_SUPPRESS_WINDOW),
     !.raw_stable_since = [b \in Btn |-> Older(@[b], d, RESYNC_SAMPLE_MS)],
     !.last_synth_time = [b \in Btn |-> Older(@[b], d, RESYNC_COOLDOWN_MS)]]

\* times between two level changes the environment chooses from
Delays == {0, 10, 20, 180, 190, 700, 800, 820, 3000}

NoEdge == [btn |-> "none", is_press |-> FALSE]

\* what the environment does next: one of btns changes level after one of
\* delays, and its interrupt may be missed if miss
Change(btns, delays, miss) == [btns |-> btns, delays |-> delays, miss |-> miss]

\* A button changes level after env_wait more milliseconds, while
\* input_monitor blocks in edge_queue.get; _edge_cb queues the edge unless
\* the interrupt is missed.
LevelChange(b, delivered) ==
  /\ done < Len(plan)
  /\ b \in plan[done + 1].btns
  /\ delivered \/ plan[done + 1].miss
  /\ env_wait = 0 \/ (edge_queue = <<>> /\ env_wait <= get_left)
  /\ \E c \in {Aged(Cls, env_wait)} : Commit(c)
  /\ get_left' = get_left - env_wait
  /\ raw' = [raw EXCEPT ![b] = ~@]
  /\ edge_queue' = IF delivered
                   THEN Append(edge_queue, [btn |-> b, is_press |-> ~raw[b]])
                   ELSE edge_queue
  /\ done' = done + 1
  /\ IF done' < Len(plan) THEN env_wait' \in plan[done' + 1].delays
                           ELSE env_wait' = None
  /\ UNCHANGED <<libVars, it, plan, dspVars>>

\* One iteration of the input_monitor loop: the get returns the oldest edge
\* at once, or times out; then the edge is processed (2), expired tap
\* decisions are finalized (3), a stale pending chord is discarded (4) and
\* the resync runs (4b).
LoopIter ==
  /\ edge_queue # <<>> \/ env_wait = None \/ get_left <= env_wait
  /\ LET d == IF edge_queue # <<>> THEN 0 ELSE get_left
         e == IF edge_queue # <<>> THEN Head(edge_queue) ELSE NoEdge
     IN \E s0 \in {Aged(Cls, d)} :
        \E s1 \in {IF e = NoEdge THEN s0 ELSE ProcessEdge(s0, e)} :
        \E s2 \in {Finalize(s1)} :
        \E s3 \in {ChordTimeoutCheck(s2)} :
        \E s4 \in {Resync(s3, raw)} :
          /\ Commit(s4)
          /\ it' = [edge |-> e, s0 |-> s0, s1 |-> s1, s2 |-> s2, s3 |-> s3, s4 |-> s4]
          /\ edge_queue' = IF edge_queue # <<>> THEN Tail(edge_queue) ELSE edge_queue
          /\ env_wait' = Nearer(env_wait, d)
  /\ get_left' = GET_TIMEOUT
  /\ UNCHANGED <<libVars, raw, plan, done, dspVars>>

\* ---- WeightedHistoryShuffler (the shuffler of the songs) ----
Items == 1..PoolSize
\* the arguments of the constructor, the fractions in hundredths
RECENT_WINDOW == 2
UNHEARD_BOOST == 200
AGE_BOOST == 15
RECENT_PENALTY == 10
MIN_WEIGHT == 5
\* a weight is kept as the fraction num / den, den a multiple of 1000000
InRecent(s, item) == \E k \in 1..Len(s.recent) : s.recent[k] = item
\* _weight before its last line
RawWeight(s, item) ==
  LET age == Max(0, s.pick_counter - s.last_pick_idx[item])
      unheard == IF s.plays[item] = 0 THEN 1 ELSE 0
      w == (100 + UNHEARD_BOOST * unheard) * (100 + AGE_BOOST * age)
  IN [num |-> IF InRecent(s, item) THEN w * Max(0, 100 - RECENT_PENALTY) ELSE w * 100,
      den |-> 1000000 * (1 + s.plays[item])]
\* min_weight as a fraction of the same denominator
FloorNum(s, item) == MIN_WEIGHT * 10000 * (1 + s.plays[item])
\* variant of Weight that returns the weight as built, without the floor
WeightNoFloor(s, item) == RawWeight(s, item)

\* _weight
Weight(s, item) ==
  [RawWeight(s, item) EXCEPT !.num = Max(FloorNum(s, item), @)]
\* _note_pick
NotePick(s, item) ==
  [s EXCEPT !.plays[item] = @ + 1,
            !.last_pick_idx[item] = s.pick_counter,
            !.recent = IF Len(@) >= RECENT_WINDOW
                       THEN Append(SubSeq(@, Len(@) - RECENT_WINDOW + 2, Len(@)), item)
                       ELSE Append(@, item),
            !.pick_counter = @ + 1]
\* the items random.choices can return for these weights: those of positive
\* weight
Choices(s) == {i \in Items : Weight(s, i).num > 0}
\* a fresh shuffler
ShufflerInit ==
  [plays |-> [i \in Items |-> 0], last_pick_idx |-> [i \in Items |-> -LongAgo],
   pick_counter |-> 0, recent |-> <<>>, last_op |-> "none", last_item |-> 0]
\* ---- hw.audio and play_audio ----
\* the threads that play: the main thread (cues of the dispatcher, handlers
\* of Dice) and the audio thread of the active state
Callers == {"dispatcher", "audio_thread"}
\* no player process yet (_play_proc is None; processes are numbered from 1);
\* for each caller: where its call is ("idle": no call in progress, "eval":
\* past the first locked block of play_wav, "wait": in _play_proc.wait(),
\* "finally": before the second locked block), the process it started, the
\* process it waits for, its interruptable argument, and how its latest call
\* ended; audio_done is the event of that name of the running Sing, Quip or
\* Story body
AudioInit ==
  [play_proc |-> 0, running |-> {}, finished |-> {}, started |-> 0, stopped |-> FALSE,
   pc |-> [t \in Callers |-> "idle"], own |-> [t \in Callers |-> 0],
   waits |-> [t \in Callers |-> 0], interruptable |-> [t \in Callers |-> FALSE],
   ret |-> [t \in Callers |-> "none"], audio_done |-> FALSE]
\* _stop_current_locked
StopCurrent(a) == [a EXCEPT !.running = @ \ {a.play_proc}, !.play_proc = 0]
\* the second locked block of play_wav: _play_proc = None
FinallyClear(a, t) == [a EXCEPT !.play_proc = 0]
LibInit ==
  /\ shuffler = ShufflerInit
  /\ audio = AudioInit
  /\ mgr = [thread_started |-> FALSE, bodies |-> 1]
  /\ sim = [running |-> "None", nested |-> FALSE]

\* the program after manager.set_state(BootState) in the main block
DspInit ==
  /\ state = "Boot"
  /\ alive = TRUE
  /\ interrupt_requested = FALSE
  /\ next_state = "None"
  /\ current_volume = 255
  /\ idle_for = 0
  /\ sleep = [wake_taps |-> 0, last_tap_time |-> 600, settle_until |-> 500,
              wake_requested |-> FALSE, acted |-> FALSE]
  /\ dice = [mode |-> "selection", selected_index |-> 0, settle_until |-> 250,
             last_result |-> -1, acted |-> FALSE, tail |-> <<>>]
  /\ shutdown = [shutdown_requested |-> FALSE, poweroffs |-> 0]
  /\ anim = [pc |-> "off", last |-> FALSE, audio |-> "off", audio_done |-> FALSE,
             current_col |-> 0, index |-> 0, frame_index |-> 0, segments |-> 0,
             shown |-> <<>>, late |-> 0]
  /\ pc = "dispatch"
  /\ target = "None"
  /\ cont = "dispatch"

\* the state of input_monitor when its loop is entered
ClsInit ==
  /\ down = [b \in Btn |-> FALSE]
  /\ press_time = [b \in Btn |-> None]
  /\ tap_count = [b \in Btn |-> 0]
  /\ decide_at = [b \in Btn |-> None]
  /\ tap_suppress_until = [b \in Btn |-> 0]
  /\ chord_armed = TRUE
  /\ chord_pending = FALSE
  /\ chord_detect_time = None
  /\ last_hold_time = [b \in Btn |-> HoldAgeCap(b)]
  /\ last_chord_time = CHORD_TAP_SUPPRESS_WINDOW
  /\ raw = [b \in Btn |-> FALSE]
  /\ last_raw = raw
  /\ raw_stable_since = [b \in Btn |-> 0]
  /\ last_synth_time = [b \in Btn |-> RESYNC_COOLDOWN_MS]
  /\ edge_queue = <<>>
  /\ event_queue = <<>>
  /\ get_left = GET_TIMEOUT
  /\ it = [edge |-> NoEdge, s0 |-> Cls, s1 |-> Cls, s2 |-> Cls, s3 |-> Cls, s4 |-> Cls]

\* MaxChanges level changes of either button after any of Delays, no
\* interrupt missed
Init ==
  /\ ClsInit
  /\ LibInit
  /\ DspInit
  /\ plan = [i \in 1..MaxChanges |-> Change(Btn, Delays, FALSE)]
  /\ done = 0
  /\ env_wait \in plan[1].delays

\* ---- a run of taps on one button ----
\* gap before a press and length of a pulse: a release follows the previous
\* release by at most 340 + 350 ms, less than TAP_DECISION
Gaps == {10, 340}
Durs == {20, 350}
TapPlan(b, k) ==
  [i \in 1..(2 * k) |-> IF i % 2 = 1 THEN Change({b}, Gaps, FALSE)
                                     ELSE Change({b}, Durs, FALSE)]
InitTaps ==
  /\ ClsInit
  /\ LibInit
  /\ DspInit
  /\ \E b \in Btn, k \in 1..MaxPulses : plan = TapPlan(b, k)
  /\ done = 0
  /\ env_wait \in plan[1].delays

\* ---- a chord, after some taps and before one more pulse ----
PreTaps(p, n) ==
  [i \in 1..(2 * n) |-> IF i % 2 = 1 THEN Change({p}, {10}, FALSE)
                                     ELSE Change({p}, {20}, FALSE)]
ChordPlan(p, n, first) ==
  PreTaps(p, n) \o
  << Change({first}, {10}, FALSE),
     Change({Other(first)}, {0, 180, 190}, FALSE),
     Change(Btn, {20, 800, 820}, FALSE),
     Change(Btn, {10, 190}, FALSE),
     Change(Btn, {10, 700, 720}, FALSE),
     Change(Btn, {20, 30}, FALSE) >>
InitChord ==
  /\ ClsInit
  /\ LibInit
  /\ DspInit
  /\ \E p \in Btn, n \in 0..MaxPreTaps, first \in Btn : plan = ChordPlan(p, n, first)
  /\ done = 0
  /\ env_wait \in plan[1].delays

\* ---- a pulse whose edges can be lost, after some taps and before one more tap ----
MissPlan(b, n) ==
  PreTaps(b, n) \o
  << Change({b}, {10, 340}, TRUE),
     Change({b}, {10, 20, 190}, TRUE),
     Change(Btn, {10, 700}, FALSE),
     Change(Btn, {20}, FALSE) >>
InitMiss ==
  /\ ClsInit
  /\ LibInit
  /\ DspInit
  /\ \E b \in Btn, n \in 0..MaxPreTaps : plan = MissPlan(b, n)
  /\ done = 0
  /\ env_wait \in plan[1].delays

Next ==
  \/ \E b \in Btn, delivered \in BOOLEAN : LevelChange(b, delivered)
  \/ LoopIter

Spec == Init /\ [][Next]_vars
SpecTaps == InitTaps /\ [][Next]_vars
SpecChord == InitChord /\ [][Next]_vars
SpecMiss == InitMiss /\ [][Next]_vars
\* ---- level changes of either button, each of which can be lost ----
InitResync ==
  /\ ClsInit
  /\ LibInit
  /\ DspInit
  /\ plan = [i \in 1..MaxLost |-> Change(Btn, {10, 20, 190, 700}, TRUE)]
  /\ done = 0
  /\ env_wait \in plan[1].delays
\* the loop of input_monitor never stops, and the buttons go through the
\* level changes of the run
SpecResync ==
  /\ InitResync
  /\ [][Next]_vars
  /\ WF_vars(LoopIter)
  /\ WF_vars(\E b \in Btn, delivered \in BOOLEAN : LevelChange(b, delivered))

\* ---- state manager, states and dispatcher (worker-thread build, SIM false) ----
States == {"Boot", "Idle", "Sing", "Sleep", "Shutdown", "Story", "Dice", "Quip"}
NoState == "None"
NumDice == 7
\* taps that wake Sleep; the count of SleepState is kept up to this value
WAKE_TAPS == 5
\* the idle watchdog's limit (300 s)
IDLE_TIMEOUT == 300000
\* the steps of the clock of the dispatcher side, in milliseconds
Ticks == {500, IDLE_TIMEOUT}
\* SleepState.__init__: sleep_tap_window, and the settle window from entry
SLEEP_TAP_WINDOW == 600
SLEEP_SETTLE_MS == 500
\* DiceState.__init__: the settle window from entry, and the largest value of
\* each die
DICE_SETTLE_MS == 250
\* the tail of a result strip: frames RESULT_TAIL_START up to RESULT_FRAMES - 1
RESULT_TAIL_START == 3
RESULT_FRAMES == 7
MAX_VALS == <<20, 12, 10, 8, 6, 4, 100>>
\* last_tap_time is kept as the age of the last counted tap (SLEEP_TAP_WINDOW
\* and more are alike), settle_until as the time left of the settle window;
\* acted tells whether a handler of the object has displayed or played
\* anything
SleepInit == [wake_taps |-> 0, last_tap_time |-> SLEEP_TAP_WINDOW,
              settle_until |-> SLEEP_SETTLE_MS, wake_requested |-> FALSE,
              acted |-> FALSE]
DiceInit == [mode |-> "selection", selected_index |-> 0,
             settle_until |-> DICE_SETTLE_MS, last_result |-> None, acted |-> FALSE,
             tail |-> <<>>]
\* the values of random.randint(1, MAX_VALS[i]) that are tried: those up to
\* MaxRoll
Rolls(i) == {r \in 1..MAX_VALS[i + 1] : r <= MaxRoll}
\* no animation or audio thread of a state body is running
AnimOff == [pc |-> "off", last |-> FALSE, audio |-> "off", audio_done |-> FALSE,
            current_col |-> 0, index |-> 0, frame_index |-> 0, segments |-> 0,
            shown |-> <<>>, late |-> 0]

\* the dispatcher's view of the program
Dsp ==
  [state |-> state, alive |-> alive, interrupt_requested |-> interrupt_requested,
   next_state |-> next_state, current_volume |-> current_volume,
   idle_for |-> idle_for,
   sleep |-> sleep, dice |-> dice, shutdown |-> shutdown,
   pc |-> pc, target |-> target, cont |-> cont,
   event_queue |-> event_queue, rand |-> 1]
CommitDsp(d) ==
  /\ state' = d.state
  /\ alive' = d.alive
  /\ interrupt_requested' = d.interrupt_requested
  /\ next_state' = d.next_state
  /\ current_volume' = d.current_volume
  /\ idle_for' = d.idle_for
  /\ sleep' = d.sleep
  /\ dice' = d.dice
  /\ shutdown' = d.shutdown
  /\ pc' = d.pc
  /\ target' = d.target
  /\ cont' = d.cont
  /\ event_queue' = d.event_queue

\* StateManager.set_state after the join: clear the flag, purge the queue,
\* construct the state and start its thread; the scheduler loop then clears
\* manager.next_state when the call came from there
EnterState(d, state_cls, back) ==
  [d EXCEPT !.interrupt_requested = FALSE, !.event_queue = <<>>,
            !.state = state_cls, !.alive = TRUE, !.idle_for = 0,
            !.sleep = SleepInit, !.dice = DiceInit,
            !.shutdown.shutdown_requested = FALSE,
            !.next_state = IF back = "next" THEN NoState ELSE @,
            !.pc = "dispatch", !.target = NoState, !.cont = "dispatch"]
\* StateManager.set_state up to the join of a live thread
set_state(d, state_cls, back) ==
  LET d1 == [d EXCEPT !.interrupt_requested = TRUE]
  IN IF d1.alive
     THEN [d1 EXCEPT !.pc = "join", !.target = state_cls, !.cont = back]
     ELSE EnterState(d1, state_cls, back)

\* variant of IdleHandle that starts Sing on a Double of button 1 as well
IdleHandleAlsoDouble(d, evt) ==
  IF evt \in {TAP["B1"], DOUBLE["B1"]} THEN set_state(d, "Sing", "dispatch")
  ELSE IF evt = TAP["B2"] THEN set_state(d, "Quip", "dispatch")
  ELSE d

IdleHandle(d, evt) ==
  IF evt = TAP["B1"] THEN set_state(d, "Sing", "dispatch")
  ELSE IF evt = TAP["B2"] THEN set_state(d, "Quip", "dispatch")
  ELSE d
\* SleepState._wake: the backlight and the display are brought up again
SleepWake(d) ==
  IF d.sleep.wake_requested THEN d
  ELSE [d EXCEPT !.sleep.wake_requested = TRUE, !.sleep.acted = TRUE,
                 !.interrupt_requested = TRUE, !.next_state = "Boot"]
\* variant of SleepHandle that counts every Tap(1), whatever the gap
SleepHandleNoWindow(d, evt) ==
  IF d.sleep.settle_until > 0 THEN d
  ELSE IF evt = FIVETAP["B1"] THEN SleepWake(d)
  ELSE IF evt = TAP["B1"]
  THEN LET n == Min(d.sleep.wake_taps + 1, WAKE_TAPS)
           d1 == [d EXCEPT !.sleep.wake_taps = n, !.sleep.last_tap_time = 0]
       IN IF n >= WAKE_TAPS THEN SleepWake(d1) ELSE d1
  ELSE d

SleepHandle(d, evt) ==
  IF d.sleep.settle_until > 0 THEN d
  ELSE IF evt = FIVETAP["B1"] THEN SleepWake(d)
  ELSE IF evt = TAP["B1"]
  THEN LET n == IF d.sleep.last_tap_time < SLEEP_TAP_WINDOW
                THEN Min(d.sleep.wake_taps + 1, WAKE_TAPS) ELSE 1
           d1 == [d EXCEPT !.sleep.wake_taps = n, !.sleep.last_tap_time = 0]
       IN IF n >= WAKE_TAPS THEN SleepWake(d1) ELSE d1
  ELSE d
\* DiceState._roll_current, d.rand being the value that random.randint returns
DiceRoll(d) ==
  IF d.interrupt_requested
  THEN [d EXCEPT !.dice.mode = "selection", !.dice.acted = TRUE]
  ELSE [d EXCEPT !.dice.mode = "result", !.dice.last_result = d.rand,
                 !.dice.acted = TRUE]
\* the frames SpriteAnimator.play_column shows on the main thread for the
\* range start..end-1: none when the interrupt flag is raised
ColumnFrames(flag, start, end) ==
  IF flag THEN <<>> ELSE [k \in 1..(end - start) |-> start + k - 1]
\* DiceState._play_result_strip(start_frame=3): the tail of the result
PlayResultStrip(d) ==
  IF d.dice.last_result = None THEN d
  ELSE [d EXCEPT !.dice.tail = ColumnFrames(d.interrupt_requested,
                                            RESULT_TAIL_START, RESULT_FRAMES)]
\* variant of DiceAct where Tap(2) in result mode returns to the selection
\* without the tail of the result
DiceActNoTail(d0, evt) ==
  LET d == [d0 EXCEPT !.dice.tail = <<>>]
  IN IF evt = DOUBLE["B1"] THEN [d EXCEPT !.interrupt_requested = FALSE]
     ELSE IF evt = DOUBLE["B2"]
     THEN [d EXCEPT !.interrupt_requested = FALSE, !.dice.selected_index = 0,
                    !.dice.mode = "selection", !.dice.acted = TRUE]
     ELSE IF d.dice.mode = "selection"
     THEN IF evt = TAP["B1"] THEN DiceRoll(d)
          ELSE IF evt = TAP["B2"]
          THEN [d EXCEPT !.dice.selected_index = (@ + 1) % NumDice, !.dice.acted = TRUE]
          ELSE d
     ELSE IF evt = TAP["B1"] THEN DiceRoll(PlayResultStrip(d))
          ELSE IF evt = TAP["B2"]
          THEN [d EXCEPT !.dice.mode = "selection", !.dice.acted = TRUE]
          ELSE d

\* DiceState.handle_event after the settle window; dice.tail lists the frames
\* of the result strip that this call has shown
DiceAct(d0, evt) ==
  LET d == [d0 EXCEPT !.dice.tail = <<>>]
  IN IF evt = DOUBLE["B1"] THEN [d EXCEPT !.interrupt_requested = FALSE]
     ELSE IF evt = DOUBLE["B2"]
     THEN [d EXCEPT !.interrupt_requested = FALSE, !.dice.selected_index = 0,
                    !.dice.mode = "selection", !.dice.acted = TRUE]
     ELSE IF d.dice.mode = "selection"
     THEN IF evt = TAP["B1"] THEN DiceRoll(d)
          ELSE IF evt = TAP["B2"]
          THEN [d EXCEPT !.dice.selected_index = (@ + 1) % NumDice, !.dice.acted = TRUE]
          ELSE d
     ELSE IF evt = TAP["B1"] THEN DiceRoll(PlayResultStrip(d))
          ELSE IF evt = TAP["B2"]
          THEN [PlayResultStrip(d) EXCEPT !.dice.mode = "selection", !.dice.acted = TRUE]
          ELSE d
\* variant of DiceHandle without the settle window
DiceHandleNoSettle(d, evt) == DiceAct(d, evt)

\* DiceState.handle_event
DiceHandle(d, evt) ==
  IF d.dice.settle_until > 0 THEN d ELSE DiceAct(d, evt)
\* state.handle_event(evt) of the active state
handle_event(d, evt) ==
  IF d.state = "Idle" THEN IdleHandle(d, evt)
  ELSE IF d.state = "Sleep" THEN SleepHandle(d, evt)
  ELSE IF d.state = "Dice" THEN DiceHandle(d, evt)
  ELSE d

\* variant of DispatchChord that toggles Dice also while Sleep is active
DispatchChordAlsoInSleep(d) ==
  IF d.state = "Dice" THEN set_state(d, "Idle", "dispatch")
  ELSE set_state(d, "Dice", "dispatch")

\* the chord rule of dispatch_events
DispatchChord(d) ==
  IF d.state = "Sleep" THEN d
  ELSE IF d.state = "Dice" THEN set_state(d, "Idle", "dispatch")
  ELSE set_state(d, "Dice", "dispatch")

\* variant of VolumeToggle that only ever turns the volume down
VolumeToggleDownOnly(v) == VOLUME_LOW

\* the volume rule of dispatch_events
VolumeToggle(v) == IF v = VOLUME_HIGH THEN VOLUME_LOW ELSE VOLUME_HIGH

\* variant of DispatchFiveTap1 that enters Sleep before the cue has played
DispatchFiveTap1NoCue(d) ==
  IF d.state # "Sleep"
  THEN set_state(d, "Sleep", "dispatch")
  ELSE handle_event(d, FIVETAP["B1"])

\* the FiveTap(1) rule of dispatch_events: the flag is raised and the cue
\* starts (set_state follows when it has played), or the gesture falls
\* through to the handler of Sleep
DispatchFiveTap1(d) ==
  IF d.state # "Sleep"
  THEN [d EXCEPT !.interrupt_requested = TRUE, !.pc = "cue", !.target = "Sleep"]
  ELSE handle_event(d, FIVETAP["B1"])

\* the FiveTap(2) rule of dispatch_events
DispatchFiveTap2(d, since_hold) ==
  IF since_hold < HOLD_TAP_IGNORE_SEC THEN d
  ELSE [d EXCEPT !.interrupt_requested = TRUE, !.pc = "cue", !.target = "Shutdown"]

\* variant of DispatchDouble that raises the flag in every state
DispatchDoubleAlwaysRaises(d, evt) ==
  handle_event([d EXCEPT !.interrupt_requested = TRUE], evt)

\* the Double rule of dispatch_events
DispatchDouble(d, evt) ==
  IF d.state = "Dice" THEN handle_event(d, evt)
  ELSE handle_event([d EXCEPT !.interrupt_requested = TRUE], evt)

\* one turn of the loop of dispatch_events, for gesture evt taken from the
\* queue, since_hold being the age of the last Hold of button 2
dispatch(d, evt, since_hold) ==
  IF evt = CHORD THEN DispatchChord(d)
  ELSE IF evt = HOLD["B1"]
  THEN [d EXCEPT !.current_volume = VolumeToggle(@)]
  ELSE IF evt = HOLD["B2"] THEN set_state(d, "Story", "dispatch")
  ELSE IF evt = FIVETAP["B1"] THEN DispatchFiveTap1(d)
  ELSE IF evt = FIVETAP["B2"] THEN DispatchFiveTap2(d, since_hold)
  ELSE IF evt \in {DOUBLE["B1"], DOUBLE["B2"]} THEN DispatchDouble(d, evt)
  ELSE handle_event(d, evt)

\* the classifier (or the keyboard of the simulator) queues a gesture
Post(evt) ==
  /\ Len(event_queue) < MaxQueue
  /\ event_queue' = Append(event_queue, evt)
  /\ last_hold_time' = IF evt = HOLD["B2"] THEN [last_hold_time EXCEPT !["B2"] = 0]
                       ELSE last_hold_time
  /\ UNCHANGED <<libVars, clsLocal, monVars, dspVars>>

\* the clock readings of the dispatcher side after dt more milliseconds: the
\* settle window and the tap window of the active state, and the age of the
\* last Hold of button 2
Later(dt) ==
  [sleep |-> IF state = "Sleep"
             THEN [sleep EXCEPT !.settle_until = Max(@ - dt, 0),
                                !.last_tap_time = Min(@ + dt, SLEEP_TAP_WINDOW)]
             ELSE sleep,
   dice |-> IF state = "Dice"
            THEN [dice EXCEPT !.settle_until = Max(@ - dt, 0)]
            ELSE dice,
   last_hold_time |-> [last_hold_time EXCEPT
                         !["B2"] = Min(@ + dt, HOLD_TAP_IGNORE_SEC)],
   idle_for |-> IF state = "Idle"
                THEN Min(idle_for + (dt \div IDLE_TIMEOUT) * IDLE_TIMEOUT,
                         2 * IDLE_TIMEOUT)
                ELSE idle_for]
\* time passes, dt milliseconds at once
Elapse(dt) ==
  /\ <<sleep, dice, last_hold_time, idle_for>> #
       <<Later(dt).sleep, Later(dt).dice, Later(dt).last_hold_time, Later(dt).idle_for>>
  /\ idle_for' = Later(dt).idle_for
  /\ sleep' = Later(dt).sleep
  /\ dice' = Later(dt).dice
  /\ last_hold_time' = Later(dt).last_hold_time
  /\ UNCHANGED <<libVars, clsLocal, event_queue, monVars, state, alive, interrupt_requested,
                 next_state, current_volume, shutdown, anim, pc, target, cont>>

\* dispatch_events takes one gesture from the queue and handles it
DispatchEvent ==
  /\ pc = "dispatch"
  /\ event_queue # <<>>
  /\ \E r \in Rolls(dice.selected_index) :
       \E d \in {dispatch([Dsp EXCEPT !.event_queue = Tail(@), !.rand = r],
                          Head(event_queue), last_hold_time["B2"])} : CommitDsp(d)
  /\ UNCHANGED <<libVars, clsVars, monVars, anim>>

\* dispatch_events finds the queue empty and returns to the scheduler loop
DrainEnd ==
  /\ pc = "dispatch"
  /\ event_queue = <<>>
  /\ pc' = "next"
  /\ UNCHANGED <<libVars, clsVars, event_queue, monVars, state, alive, interrupt_requested,
                 next_state, current_volume, idle_for, sleep, dice, shutdown, anim, target, cont>>

\* the scheduler loop consumes manager.next_state, then sleeps and starts over
ConsumeNext ==
  /\ pc = "next"
  /\ \E d \in {IF next_state # NoState THEN set_state(Dsp, next_state, "next")
               ELSE [Dsp EXCEPT !.pc = "dispatch"]} : CommitDsp(d)
  /\ UNCHANGED <<libVars, clsVars, monVars, anim>>

\* the cue of a FiveTap rule has played to its end: set_state follows
CueDone ==
  /\ pc = "cue"
  /\ \E d \in {set_state(Dsp, target, "dispatch")} : CommitDsp(d)
  /\ UNCHANGED <<libVars, clsVars, monVars, anim>>

\* the join of set_state returns because the thread of the old state ended
JoinDone ==
  /\ pc = "join"
  /\ ~alive
  /\ \E d \in {EnterState(Dsp, target, cont)} : CommitDsp(d)
  /\ UNCHANGED <<libVars, clsVars, monVars, anim>>

\* what run() of a state writes to manager.next_state when it returns
NextOnReturn(s, old) ==
  IF s \in {"Boot", "Sing", "Story", "Quip", "Dice"} THEN "Idle" ELSE old
\* variant of CanReturn where the body of Shutdown ends on the interrupt flag
CanReturnAlsoShutdown ==
  \/ state \in {"Boot", "Sing", "Story", "Quip"}
  \/ state \in {"Idle", "Dice", "Shutdown"} /\ interrupt_requested
  \/ state = "Sleep" /\ sleep.wake_requested

\* whether run() of the active state can return now
CanReturn ==
  \/ state \in {"Boot", "Sing", "Story", "Quip"}
  \/ state \in {"Idle", "Dice"} /\ interrupt_requested
  \/ state = "Sleep" /\ sleep.wake_requested

\* run() of the active state returns and its thread ends
RunReturns ==
  /\ alive
  /\ CanReturn
  /\ alive' = FALSE
  /\ next_state' = NextOnReturn(state, next_state)
  /\ UNCHANGED <<libVars, clsVars, event_queue, monVars, state, interrupt_requested,
                 current_volume, idle_for, sleep, dice, shutdown, anim, pc, target, cont>>

\* ShutdownState.run up to its waiting loop: the display is reset and the
\* power-off command is issued, unless the object has done so before
ShutdownRun ==
  /\ state = "Shutdown"
  /\ alive
  /\ ~shutdown.shutdown_requested
  /\ shutdown' = [shutdown_requested |-> TRUE,
                  poweroffs |-> Min(shutdown.poweroffs + 1, MaxPowerOffs)]
  /\ UNCHANGED <<libVars, clsVars, event_queue, monVars, state, alive, interrupt_requested,
                 next_state, current_volume, idle_for, sleep, dice, anim, pc, target, cont>>

InitDispatch ==
  /\ ClsInit
  /\ LibInit
  /\ DspInit
  /\ plan = <<>>
  /\ done = 0
  /\ env_wait = None
NextDispatch ==
  \/ \E evt \in Gestures : Post(evt)
  \/ \E dt \in Ticks : Elapse(dt)
  \/ DispatchEvent
  \/ DrainEnd
  \/ ConsumeNext
  \/ CueDone
  \/ JoinDone
  \/ RunReturns
  \/ ShutdownRun
\* the threads are scheduled: a state body that can return does, and the
\* main thread goes on when nothing blocks it
SpecDispatch ==
  /\ InitDispatch
  /\ [][NextDispatch]_vars
  /\ WF_vars(RunReturns)
  /\ WF_vars(JoinDone)
  /\ WF_vars(CueDone)
  /\ WF_vars(ShutdownRun)
\* the same, and the scheduler loop of the main thread never stops turning
SpecLoop ==
  /\ SpecDispatch
  /\ WF_vars(DispatchEvent)
  /\ WF_vars(DrainEnd)
  /\ WF_vars(ConsumeNext)

\* ---- run() of Sing, Quip and Story: animation and audio threads ----
\* anim.pc is the position of the animation (for the last column of Sing: of
\* the body): "loop" at the loop test of animate, "test" at the loop test of
\* play_column, "show" before its show_image, "ret" where play_column has
\* returned, "finish" after the loop of animate, "done" when animate has
\* returned, "end" when run() has returned; anim.last tells the call of
\* play_column that is not interruptable; anim.shown lists the frames shown
\* of the segment in progress
Rendezvous == {"Sing", "Quip", "Story"}
AnimStart(col) == [AnimOff EXCEPT !.pc = "loop", !.audio = "playing", !.current_col = col]
AnimStep(a) ==
  /\ anim' = a
  /\ UNCHANGED <<libVars, clsVars, event_queue, monVars, state, alive, interrupt_requested,
                 next_state, current_volume, idle_for, sleep, dice, shutdown, pc, target, cont>>

\* play_audio returns and play_audio_and_flag sets audio_done unless the
\* interrupt flag is raised
AudioEnds ==
  /\ anim.audio = "playing"
  /\ AnimStep([anim EXCEPT !.audio = "done", !.audio_done = ~interrupt_requested])

\* variant of AnimLoop that goes on after the audio has completed
AnimLoopIgnoresAudio ==
  /\ anim.pc = "loop"
  /\ IF ~interrupt_requested
     THEN \E col \in (IF state = "Sing" THEN 0..(NumColumns - 1) ELSE {anim.current_col}) :
            AnimStep([anim EXCEPT !.pc = "test", !.last = FALSE, !.current_col = col,
                                  !.frame_index = 0, !.index = 0, !.shown = <<>>,
                                  !.segments = Min(@ + 1, MaxSegments)])
     ELSE AnimStep([anim EXCEPT !.pc = IF state = "Sing" THEN "done" ELSE "finish"])

\* the loop test of animate: another segment starts from frame 0 (Sing draws
\* its column here), or the loop is left
AnimLoop ==
  /\ anim.pc = "loop"
  /\ IF ~interrupt_requested /\ ~anim.audio_done
     THEN \E col \in (IF state = "Sing" THEN 0..(NumColumns - 1) ELSE {anim.current_col}) :
            AnimStep([anim EXCEPT !.pc = "test", !.last = FALSE, !.current_col = col,
                                  !.frame_index = 0, !.index = 0, !.shown = <<>>,
                                  !.segments = Min(@ + 1, MaxSegments)])
     ELSE AnimStep([anim EXCEPT !.pc = IF state = "Sing" THEN "done" ELSE "finish"])

\* the loop test of play_column
ColumnTest ==
  /\ anim.pc = "test"
  /\ AnimStep([anim EXCEPT !.pc = IF interrupt_requested THEN "ret" ELSE "show"])

\* the loop body of play_column: the frame is shown, the frame time passes,
\* then the end of the range and (if interruptable) the flag are looked at
ColumnShow ==
  /\ anim.pc = "show"
  /\ AnimStep([anim EXCEPT
                 !.shown = Append(@, [col |-> anim.current_col, row |-> anim.index]),
                 !.late = IF interrupt_requested THEN Min(@ + 1, MaxLate) ELSE @,
                 !.index = @ + 1,
                 !.pc = IF anim.index + 1 >= FramesPerColumn THEN "ret"
                        ELSE IF ~anim.last /\ interrupt_requested THEN "ret"
                        ELSE "test"])

\* play_column has returned index: the last column ends animate (Quip,
\* Story) or the body (Sing); in the loop, Sing keeps min(index, frames) and
\* goes round, Quip and Story keep index and leave the loop if audio_done or
\* the flag is set, else draw the next column
ColumnReturns ==
  /\ anim.pc = "ret"
  /\ IF anim.last
     THEN IF state = "Sing"
          THEN /\ anim' = [anim EXCEPT !.pc = "end"]
               /\ next_state' = "Idle"
               /\ alive' = FALSE
               /\ UNCHANGED <<libVars, clsVars, event_queue, monVars, state, interrupt_requested,
                              current_volume, idle_for, sleep, dice, shutdown, pc, target, cont>>
          ELSE AnimStep([anim EXCEPT !.pc = "done"])
     ELSE IF state = "Sing"
          THEN AnimStep([anim EXCEPT !.pc = "loop",
                                     !.frame_index = Min(anim.index, FramesPerColumn)])
          ELSE IF anim.audio_done \/ interrupt_requested
               THEN AnimStep([anim EXCEPT !.pc = "finish", !.frame_index = anim.index])
               ELSE \E col \in 0..(NumColumns - 1) :
                      AnimStep([anim EXCEPT !.pc = "loop", !.frame_index = anim.index,
                                            !.current_col = col])

\* after the loop of animate in Quip and Story: the current column is
\* finished from frame_index, not interruptable, unless the flag is raised
AnimFinish ==
  /\ anim.pc = "finish"
  /\ IF ~interrupt_requested /\ anim.frame_index < FramesPerColumn
     THEN AnimStep([anim EXCEPT !.pc = "test", !.last = TRUE,
                                !.index = anim.frame_index])
     ELSE AnimStep([anim EXCEPT !.pc = "done"])

\* both threads are joined: Quip and Story ask for Idle and return; Sing
\* asks for Idle and returns if the flag is raised, else plays the rest of
\* the last column from frame_index, not interruptable
BodyJoined ==
  /\ anim.pc = "done"
  /\ anim.audio = "done"
  /\ IF state = "Sing" /\ ~interrupt_requested
     THEN AnimStep([anim EXCEPT !.pc = "test", !.last = TRUE,
                                !.index = anim.frame_index])
     ELSE /\ anim' = [anim EXCEPT !.pc = "end"]
          /\ next_state' = "Idle"
          /\ alive' = FALSE
          /\ UNCHANGED <<libVars, clsVars, event_queue, monVars, state, interrupt_requested,
                         current_volume, idle_for, sleep, dice, shutdown, pc, target, cont>>

\* the main thread raises the interrupt flag (dispatch_events or set_state)
RaiseInterrupt ==
  /\ alive
  /\ ~interrupt_requested
  /\ interrupt_requested' = TRUE
  /\ UNCHANGED <<libVars, clsVars, event_queue, monVars, state, alive, next_state,
                 current_volume, idle_for, sleep, dice, shutdown, anim, pc, target, cont>>

\* Sing, Quip or Story has just been entered by set_state
InitRun ==
  /\ ClsInit
  /\ LibInit
  /\ state \in Rendezvous
  /\ alive = TRUE
  /\ interrupt_requested = FALSE
  /\ next_state = NoState
  /\ current_volume = VOLUME_HIGH
  /\ idle_for = 0
  /\ sleep = SleepInit
  /\ dice = DiceInit
  /\ shutdown = [shutdown_requested |-> FALSE, poweroffs |-> 0]
  /\ \E col \in 0..(NumColumns - 1) : anim = AnimStart(col)
  /\ pc = "dispatch"
  /\ target = NoState
  /\ cont = "dispatch"
  /\ plan = <<>>
  /\ done = 0
  /\ env_wait = None
NextRun ==
  \/ AudioEnds
  \/ AnimLoop
  \/ ColumnTest
  \/ ColumnShow
  \/ ColumnReturns
  \/ AnimFinish
  \/ BodyJoined
  \/ RaiseInterrupt
SpecRun == InitRun /\ [][NextRun]_vars

\* ---- set_state step by step, beside the classifier and the state threads ----
\* pc = "join": set_state has raised the flag and waits for the old thread;
\* "construct": flag cleared and queue purged, the state not yet constructed;
\* "after": set_state has returned to the scheduler loop, which has not yet
\* cleared manager.next_state and purged the queue
\* the main thread up to the join of set_state, whatever the old thread does
Calls(d) == [d EXCEPT !.alive = TRUE]
Returns(d) == CommitDsp([d EXCEPT !.alive = alive])
\* dispatch_events takes one gesture from the queue and handles it
SwDispatchEvent ==
  /\ pc = "dispatch"
  /\ event_queue # <<>>
  /\ \E r \in Rolls(dice.selected_index) :
       \E d \in {dispatch(Calls([Dsp EXCEPT !.event_queue = Tail(@), !.rand = r]),
                          Head(event_queue), last_hold_time["B2"])} : Returns(d)
  /\ UNCHANGED <<clsVars, monVars, anim, libVars>>
\* the scheduler loop consumes manager.next_state
SwConsumeNext ==
  /\ pc = "next"
  /\ \E d \in {IF next_state # NoState THEN set_state(Calls(Dsp), next_state, "next")
               ELSE [Dsp EXCEPT !.pc = "dispatch"]} : Returns(d)
  /\ UNCHANGED <<clsVars, monVars, anim, libVars>>
\* the cue of a FiveTap rule has played to its end: set_state follows
SwCueDone ==
  /\ pc = "cue"
  /\ \E d \in {set_state(Calls(Dsp), target, "dispatch")} : Returns(d)
  /\ UNCHANGED <<clsVars, monVars, anim, libVars>>
\* variant of SwJoin that does not wait for the old thread
SwJoinNoWait ==
  /\ pc = "join"
  /\ pc' = "construct"
  /\ interrupt_requested' = FALSE
  /\ event_queue' = <<>>
  /\ UNCHANGED <<clsVars, monVars, libVars, state, alive, next_state, current_volume, idle_for,
                 sleep, dice, shutdown, anim, target, cont>>

\* set_state: no live thread to wait for (any more), the flag is cleared and
\* the queue purged
SwJoin ==
  /\ pc = "join"
  /\ ~alive
  /\ pc' = "construct"
  /\ interrupt_requested' = FALSE
  /\ event_queue' = <<>>
  /\ UNCHANGED <<clsVars, monVars, libVars, state, alive, next_state, current_volume, idle_for,
                 sleep, dice, shutdown, anim, target, cont>>
\* set_state constructs the state and starts its thread, then returns
SwStart ==
  /\ pc = "construct"
  /\ \E d \in {[EnterState(Dsp, target, "dispatch") EXCEPT
                   !.event_queue = event_queue,
                   !.pc = IF cont = "next" THEN "after" ELSE "dispatch"]} : CommitDsp(d)
  /\ mgr' = [mgr EXCEPT !.thread_started = TRUE]
  /\ UNCHANGED <<clsVars, monVars, anim, shuffler, audio, sim>>
\* the scheduler loop after its set_state: next_state cleared, queue purged
SwAfterNext ==
  /\ pc = "after"
  /\ pc' = "dispatch"
  /\ next_state' = NoState
  /\ event_queue' = <<>>
  /\ UNCHANGED <<clsVars, monVars, libVars, state, alive, interrupt_requested,
                 current_volume, idle_for, sleep, dice, shutdown, anim, target, cont>>
\* the started thread gets to run: run() of the new state begins
BodyBegins ==
  /\ mgr.thread_started
  /\ mgr' = [thread_started |-> FALSE, bodies |-> mgr.bodies + 1]
  /\ UNCHANGED <<clsVars, event_queue, monVars, dspVars, shuffler, audio, sim>>
\* run() of a state returns and its thread ends
SwRunReturns ==
  /\ mgr.bodies > 0
  /\ CanReturn
  /\ alive' = FALSE
  /\ next_state' = NextOnReturn(state, next_state)
  /\ mgr' = [mgr EXCEPT !.bodies = @ - 1]
  /\ UNCHANGED <<clsVars, event_queue, monVars, state, interrupt_requested,
                 current_volume, idle_for, sleep, dice, shutdown, anim, pc, target, cont,
                 shuffler, audio, sim>>
NextSwitch ==
  \/ \E evt \in Gestures : Post(evt)
  \/ \E dt \in Ticks : Elapse(dt)
  \/ SwDispatchEvent
  \/ DrainEnd
  \/ SwConsumeNext
  \/ SwCueDone
  \/ SwJoin
  \/ SwStart
  \/ SwAfterNext
  \/ BodyBegins
  \/ SwRunReturns
SpecSwitch == InitDispatch /\ [][NextSwitch]_vars

\* ---- calls of play_audio and hw.audio.stop ----
AudioStep(a) ==
  /\ audio' = a
  /\ UNCHANGED <<clsVars, event_queue, monVars, dspVars, shuffler, mgr, sim>>
\* play_audio(file, interruptable) up to the end of the first locked block of
\* play_wav: the current process is stopped and a player process is started
PlayStart(t, intr) ==
  /\ audio.pc[t] = "idle"
  /\ audio.started < MaxPlays
  /\ ~(t = "dispatcher" /\ audio.stopped)
  /\ LET a == StopCurrent(audio)
         p == audio.started + 1
     IN AudioStep([a EXCEPT !.started = p, !.running = @ \cup {p}, !.play_proc = p,
                            !.own[t] = p, !.waits[t] = 0, !.pc[t] = "eval",
                            !.interruptable[t] = intr, !.ret[t] = "none",
                            !.audio_done = IF t = "audio_thread" THEN FALSE ELSE @])
\* play_wav evaluates _play_proc.wait(): the global is read again, outside
\* the lock (None raises, which is swallowed)
PlayWaitBegins(t) ==
  /\ audio.pc[t] = "eval"
  /\ AudioStep(IF audio.play_proc = 0 THEN [audio EXCEPT !.pc[t] = "finally"]
               ELSE [audio EXCEPT !.pc[t] = "wait", !.waits[t] = audio.play_proc])
\* wait() returns: the process waited for has ended
PlayWaitEnds(t) ==
  /\ audio.pc[t] = "wait"
  /\ audio.waits[t] \notin audio.running
  /\ AudioStep([audio EXCEPT !.pc[t] = "finally"])
\* the finally block of play_wav, then play_audio returns; on the audio
\* thread of a state (play_audio_and_flag) audio_done is set unless the
\* interrupt flag is raised
PlayFinally(t) ==
  /\ audio.pc[t] = "finally"
  /\ AudioStep([FinallyClear(audio, t) EXCEPT
                 !.pc[t] = "idle",
                 !.ret[t] = IF audio.own[t] \in audio.finished THEN "finished"
                            ELSE IF audio.own[t] \in audio.running THEN "playing"
                            ELSE "stopped",
                 !.audio_done = IF t = "audio_thread" THEN ~interrupt_requested ELSE @])
\* a clip has played to its end and its player process exits
ClipEnds(p) ==
  /\ p \in audio.running
  /\ AudioStep([audio EXCEPT !.running = @ \ {p}, !.finished = @ \cup {p}])
\* the teardown of the main block: the interrupt flag is raised, then
\* hw_audio.stop()
AudioStop ==
  /\ audio.pc["dispatcher"] = "idle"
  /\ ~audio.stopped
  /\ audio' = [StopCurrent(audio) EXCEPT !.stopped = TRUE]
  /\ interrupt_requested' = TRUE
  /\ UNCHANGED <<clsVars, event_queue, monVars, state, alive, next_state, current_volume,
                 idle_for, sleep, dice, shutdown, anim, pc, target, cont, shuffler, mgr, sim>>
NextAudio ==
  \/ \E t \in Callers, intr \in BOOLEAN : PlayStart(t, intr)
  \/ \E t \in Callers : PlayWaitBegins(t)
  \/ \E t \in Callers : PlayWaitEnds(t)
  \/ \E t \in Callers : PlayFinally(t)
  \/ \E p \in 1..MaxPlays : ClipEnds(p)
  \/ AudioStop
  \/ RaiseInterrupt
\* a thread inside play_wav goes on when nothing blocks it; how long a clip
\* lasts and when the next call comes is not constrained
SpecAudio ==
  /\ InitDispatch
  /\ [][NextAudio]_vars
  /\ \A t \in Callers : /\ WF_vars(PlayWaitBegins(t))
                         /\ WF_vars(PlayWaitEnds(t))
                         /\ WF_vars(PlayFinally(t))

\* ---- calls on the shuffler ----
\* next(): an item is drawn by weight and noted
ShufflerNext ==
  /\ shuffler.pick_counter < MaxPicks
  /\ \E choice \in Choices(shuffler) :
       shuffler' = [NotePick(shuffler, choice) EXCEPT !.last_op = "next",
                                                      !.last_item = choice]
  /\ UNCHANGED <<clsVars, event_queue, monVars, dspVars, audio, mgr, sim>>
\* observe(item) for an item of the pool
ShufflerObserve(item) ==
  /\ shuffler.pick_counter < MaxPicks
  /\ shuffler' = [NotePick(shuffler, item) EXCEPT !.last_op = "observe",
                                                 !.last_item = item]
  /\ UNCHANGED <<clsVars, event_queue, monVars, dspVars, audio, mgr, sim>>
NextShuffle ==
  \/ ShufflerNext
  \/ \E item \in Items : ShufflerObserve(item)
SpecShuffle == InitDispatch /\ [][NextShuffle]_vars

\* ---- the simulator build (SIM true): one thread runs the scheduler loop,
\* the state bodies and, from play_column, dispatch_events ----
\* pc = "run": the scheduler loop is about to call run(); "frame": a body is
\* between two frames; "block": a body sleeps in a loop that shows no frame
\* manager.thread is None: set_state never joins
Inline(d) == [d EXCEPT !.alive = FALSE]
\* the states whose run() shows frames through play_column
Animated == {"Boot", "Idle", "Sing", "Quip", "Story"}
\* whether run() of the object that is executing returns when it tests its
\* loop condition
SimCanReturn ==
  \/ sim.running \in Animated \cup {"Dice"} /\ interrupt_requested
  \/ sim.running = "Sleep" /\ sleep.wake_requested
\* dispatch_events takes one gesture from the queue and handles it
SimDispatchEvent ==
  /\ pc = "dispatch"
  /\ event_queue # <<>>
  /\ \E r \in Rolls(dice.selected_index) :
       \E d \in {dispatch([Dsp EXCEPT !.event_queue = Tail(@), !.rand = r],
                          Head(event_queue), last_hold_time["B2"])} :
         CommitDsp(Inline(d))
  /\ UNCHANGED <<libVars, clsVars, monVars, anim>>
\* the cue of a FiveTap rule has played to its end: set_state follows
SimCueDone ==
  /\ pc = "cue"
  /\ \E d \in {set_state(Dsp, target, "dispatch")} : CommitDsp(Inline(d))
  /\ UNCHANGED <<libVars, clsVars, monVars, anim>>
\* dispatch_events finds the queue empty and returns, to play_column or to
\* the scheduler loop
SimDrainEnd ==
  /\ pc = "dispatch"
  /\ event_queue = <<>>
  /\ pc' = IF sim.nested THEN "frame" ELSE "next"
  /\ sim' = [sim EXCEPT !.nested = FALSE]
  /\ UNCHANGED <<clsVars, event_queue, monVars, state, alive, interrupt_requested,
                 next_state, current_volume, idle_for, sleep, dice, shutdown, anim,
                 target, cont, shuffler, audio, mgr>>
\* the scheduler loop consumes manager.next_state
SimConsumeNext ==
  /\ pc = "next"
  /\ \E d \in {IF next_state # NoState THEN set_state(Dsp, next_state, "next")
               ELSE Dsp} : CommitDsp([Inline(d) EXCEPT !.pc = "run"])
  /\ UNCHANGED <<libVars, clsVars, monVars, anim>>
\* the scheduler loop calls manager.state.run() inline
SimRunInline ==
  /\ pc = "run"
  /\ sim.running = NoState
  /\ sim' = [sim EXCEPT !.running = state]
  /\ pc' = IF state \in Animated THEN "frame" ELSE "block"
  /\ UNCHANGED <<clsVars, event_queue, monVars, state, alive, interrupt_requested,
                 next_state, current_volume, idle_for, sleep, dice, shutdown, anim,
                 target, cont, shuffler, audio, mgr>>
\* play_column of the executing body shows a frame and calls dispatch_events
SimFrame ==
  /\ pc = "frame"
  /\ ~interrupt_requested
  /\ pc' = "dispatch"
  /\ sim' = [sim EXCEPT !.nested = TRUE]
  /\ UNCHANGED <<clsVars, event_queue, monVars, state, alive, interrupt_requested,
                 next_state, current_volume, idle_for, sleep, dice, shutdown, anim,
                 target, cont, shuffler, audio, mgr>>
\* run() of the executing body returns to the scheduler loop: on the flag
\* (Sleep: on wake_requested), or because the animation of Boot, or the clip
\* of Sing, Quip or Story, has come to its end
SimRunReturns ==
  /\ pc \in {"frame", "block"}
  /\ \/ SimCanReturn
     \/ pc = "frame" /\ sim.running \in Animated \ {"Idle"}
  /\ sim' = [sim EXCEPT !.running = NoState]
  /\ next_state' = NextOnReturn(sim.running, next_state)
  /\ pc' = "dispatch"
  /\ UNCHANGED <<clsVars, event_queue, monVars, state, alive, interrupt_requested,
                 current_volume, idle_for, sleep, dice, shutdown, anim,
                 target, cont, shuffler, audio, mgr>>
\* the program after manager.set_state(BootState) in the main block
InitSim ==
  /\ ClsInit
  /\ LibInit
  /\ state = "Boot"
  /\ alive = FALSE
  /\ interrupt_requested = FALSE
  /\ next_state = NoState
  /\ current_volume = VOLUME_HIGH
  /\ idle_for = 0
  /\ sleep = SleepInit
  /\ dice = DiceInit
  /\ shutdown = [shutdown_requested |-> FALSE, poweroffs |-> 0]
  /\ anim = AnimOff
  /\ pc = "dispatch"
  /\ target = NoState
  /\ cont = "dispatch"
  /\ plan = <<>>
  /\ done = 0
  /\ env_wait = None
NextSim ==
  \/ \E evt \in Gestures : Post(evt)
  \/ \E dt \in Ticks : Elapse(dt)
  \/ SimDispatchEvent
  \/ SimCueDone
  \/ SimDrainEnd
  \/ SimConsumeNext
  \/ SimRunInline
  \/ SimFrame
  \/ SimRunReturns
\* the one thread goes on whenever it is not blocked
SpecSim ==
  /\ InitSim
  /\ [][NextSim]_vars
  /\ WF_vars(SimDispatchEvent)
  /\ WF_vars(SimCueDone)
  /\ WF_vars(SimDrainEnd)
  /\ WF_vars(SimConsumeNext)
  /\ WF_vars(SimRunInline)
  /\ WF_vars(SimFrame)
  /\ WF_vars(SimRunReturns)

\* ---- observations on the latest loop iteration ----
\* the gestures queued between two snapshots of the classifier state
Posted(a, b) == SubSeq(b.event_queue, Len(a.event_queue) + 1, Len(b.event_queue))
Count(q, x) == Cardinality({i \in 1..Len(q) : q[i] = x})
TapGestures(b) == {TAP[b], DOUBLE[b], FIVETAP[b]}
NoneOf(q, S) == \A i \in 1..Len(q) : q[i] \notin S

\* the latest iteration processed a RELEASE edge of b whose press was recorded
ReleaseOf(b) ==
  /\ it.edge = [btn |-> b, is_press |-> FALSE]
  /\ it.s0.press_time[b] # None
\* the pulse that release ended, in milliseconds
PulseOf(b) == it.s0.press_time[b]
\* the latest iteration processed a RELEASE edge of b with no recorded press
OrphanReleaseOf(b) ==
  /\ it.edge = [btn |-> b, is_press |-> FALSE]
  /\ it.s0.press_time[b] = None

\* C4: a pulse shorter than 20 ms queues no gesture and leaves the button's
\* tap tally and decision deadline as they were.
C4_ShortPulseDropped ==
  \A b \in Btn :
    (ReleaseOf(b) /\ PulseOf(b) < MIN_PULSE_MS)
      => /\ Posted(it.s0, it.s1) = <<>>
         /\ it.s1.tap_count[b] = it.s0.tap_count[b]
         /\ it.s1.decide_at[b] = it.s0.decide_at[b]

\* a pulse that is neither a blip nor a hold
Qualifying(b) == PulseOf(b) >= MIN_PULSE_MS /\ PulseOf(b) < HOLD_MS_BY_BTN[b]

\* C2 (as stated): every pulse at least as long as the button's hold threshold
\* queues exactly one Hold gesture for the button and no Tap, and leaves the
\* button's tap tally and decision deadline zero.
C2_HoldAlwaysQueued ==
  \A b \in Btn :
    (ReleaseOf(b) /\ PulseOf(b) >= HOLD_MS_BY_BTN[b])
      => /\ Count(Posted(it.s0, it.s1), HOLD[b]) = 1
         /\ NoneOf(Posted(it.s0, it.s1), TapGestures(b))
         /\ it.s1.tap_count[b] = 0
         /\ it.s1.decide_at[b] = None

\* C2 (amended): a pulse at least as long as the hold threshold queues exactly
\* one Hold gesture, except on button 1 when a Chord was queued less than
\* 750 ms earlier (the Chord queued by this very release included), where no
\* Hold is queued; in both cases no Tap gesture is queued and the tally and
\* deadline of the button are zero afterwards.
C2_HoldUnlessChordRecent ==
  \A b \in Btn :
    (ReleaseOf(b) /\ PulseOf(b) >= HOLD_MS_BY_BTN[b])
      => LET q == Posted(it.s0, it.s1)
             suppressed == /\ b = "B1"
                           /\ \/ it.s0.last_chord_time < CHORD_TAP_SUPPRESS_WINDOW
                              \/ Count(q, CHORD) > 0
         IN /\ Count(q, HOLD[b]) = (IF suppressed THEN 0 ELSE 1)
            /\ NoneOf(q, TapGestures(b))
            /\ it.s1.tap_count[b] = 0
            /\ it.s1.decide_at[b] = None
            /\ it.s1.tap_suppress_until[b] = hold_cooldown_sec

\* C2 witness: a hold-length pulse on button 1 has been released and its Hold
\* gesture queued.
C2_Witness ==
  /\ ReleaseOf("B1") /\ PulseOf("B1") >= HOLD_MS_BY_BTN["B1"]
  /\ Posted(it.s0, it.s1) = <<HOLD["B1"]>>

\* C7: while the 1.5 s cooldown that a Hold starts on a button is running, a
\* qualifying pulse on that button changes neither its tally nor its deadline
\* and queues no tap gesture; a qualifying pulse on a button whose own
\* cooldown is not running is tallied whatever the cooldown of the other
\* button (unless a chord is pending or recent).
C7_PostHoldCooldown ==
  \A b \in Btn :
    (ReleaseOf(b) /\ Qualifying(b))
      => /\ it.s0.tap_suppress_until[b] > 0
            => /\ it.s1.tap_count[b] = it.s0.tap_count[b]
               /\ it.s1.decide_at[b] = it.s0.decide_at[b]
               /\ it.s1.tap_count[b] = 0
               /\ NoneOf(Posted(it.s0, it.s2), TapGestures(b))
         /\ (/\ it.s0.tap_suppress_until[b] = 0
             /\ ~it.s0.chord_pending
             /\ it.s0.last_chord_time >= CHORD_TAP_SUPPRESS_WINDOW)
            => /\ it.s1.tap_count[b] = it.s0.tap_count[b] + 1
               /\ it.s1.decide_at[b] = TAP_DECISION
               /\ it.s1.tap_count[Other(b)] = it.s0.tap_count[Other(b)]

\* C7 witness: a qualifying pulse on a button is released inside the cooldown
\* of that button, with no chord pending or recent.
C7_Witness ==
  \E b \in Btn :
    /\ ReleaseOf(b) /\ Qualifying(b)
    /\ it.s0.tap_suppress_until[b] > 0
    /\ ~it.s0.chord_pending
    /\ it.s0.last_chord_time >= CHORD_TAP_SUPPRESS_WINDOW

\* a qualifying pulse on the other button is tallied during a button's cooldown
C7_OtherTallied ==
  \E b \in Btn :
    /\ ReleaseOf(b) /\ Qualifying(b)
    /\ it.s0.tap_suppress_until[Other(b)] > 0
    /\ it.s1.tap_count[b] = 1

\* C8 (as stated): no Chord gesture is queued for a chord that has been
\* pending for more than 1 s.
C8_NoChordAfterOneSecond ==
  Count(Posted(it.s0, it.s1), CHORD) > 0 => it.s0.chord_detect_time <= CHORD_TIMEOUT

\* C8 (amended): the timeout check of a loop iteration, which runs after the
\* edge of that iteration, discards a chord it finds pending for more than
\* 1 s, queues nothing and arms detection again; no chord pending longer than
\* 1 s survives an iteration, and a Chord gesture is only ever queued by a
\* release made while a chord is pending.
C8_ChordTimeout ==
  /\ (it.s2.chord_pending /\ it.s2.chord_detect_time > CHORD_TIMEOUT)
       => /\ ~it.s3.chord_pending
          /\ it.s3.chord_detect_time = None
          /\ it.s3.chord_armed
          /\ it.s3.event_queue = it.s2.event_queue
  /\ it.s3.chord_pending => it.s3.chord_detect_time <= CHORD_TIMEOUT
  /\ Count(Posted(it.s0, it.s1), CHORD) > 0 => it.s0.chord_pending
  /\ Count(Posted(it.s3, it.s4), CHORD) > 0 => it.s3.chord_pending

\* C8 witness: the timeout check has just discarded a pending chord while a
\* button of the chord is still held.
C8_Witness ==
  /\ it.s2.chord_pending /\ it.s2.chord_detect_time > CHORD_TIMEOUT
  /\ \E b \in Btn : it.s2.down[b]
  /\ ~chord_pending /\ chord_armed

\* the button a one-button plan works on
PlanBtn == CHOOSE b \in Btn : plan[1].btns = {b}

\* C1: five qualifying pulses on one button, each released less than 700 ms
\* after the previous release, queue exactly one FiveTap for that button and
\* nothing else: nothing is queued before the decision that follows the last
\* pulse, and once that decision has been taken the queue holds the FiveTap.
C1_FivePulsesOneFiveTap ==
  (Len(plan) = 10 /\ plan[1].btns # Btn)
    => /\ event_queue \in {<<>>, <<FIVETAP[PlanBtn]>>}
       /\ (done < 10 \/ edge_queue # <<>> \/ decide_at[PlanBtn] # None)
            => event_queue = <<>>
       /\ (done = 10 /\ edge_queue = <<>> /\ decide_at[PlanBtn] = None)
            => /\ event_queue = <<FIVETAP[PlanBtn]>>
               /\ tap_count[PlanBtn] = 0

\* C1 witness: the fifth pulse has been released and the decision that
\* follows it has queued the FiveTap.
C1_Witness ==
  /\ Len(plan) = 10 /\ done = 10
  /\ event_queue = <<FIVETAP[PlanBtn]>>
  /\ it.s1.tap_count[PlanBtn] = 5

\* the gesture a decision with tally n queues
Expected(n, b) ==
  IF n >= 5 THEN <<FIVETAP[b]>>
  ELSE IF n >= 2 THEN <<DOUBLE[b]>>
  ELSE IF n = 1 THEN <<TAP[b]>>
  ELSE <<>>
\* the deadline of b has elapsed, outside the post-chord window
Due(c, b) ==
  /\ c.decide_at[b] = 0
  /\ c.last_chord_time >= CHORD_TAP_SUPPRESS_WINDOW

\* C5: when the decision deadline of a button elapses outside the post-chord
\* window, the finalize step queues the one gesture the tally selects (1 Tap,
\* 2..4 Double, 5 or more FiveTap, 0 nothing) and resets tally and deadline;
\* a button whose deadline has not elapsed is left alone; a button without a
\* deadline has no tally, so the same pulses are never decided twice.
C5_DecisionByTally ==
  /\ Posted(it.s1, it.s2) =
       (IF Due(it.s1, "B1") THEN Expected(it.s1.tap_count["B1"], "B1") ELSE <<>>)
       \o (IF Due(it.s1, "B2") THEN Expected(it.s1.tap_count["B2"], "B2") ELSE <<>>)
  /\ \A b \in Btn :
       /\ Due(it.s1, b) => (it.s2.tap_count[b] = 0 /\ it.s2.decide_at[b] = None)
       /\ it.s1.decide_at[b] # 0
            => /\ it.s2.tap_count[b] = it.s1.tap_count[b]
               /\ it.s2.decide_at[b] = it.s1.decide_at[b]
       /\ it.s4.decide_at[b] = None => it.s4.tap_count[b] = 0

\* C5 witness: a deadline has elapsed with a tally of at least five and the
\* FiveTap has been queued.
C5_Witness ==
  \E b \in Btn :
    /\ Due(it.s1, b) /\ it.s1.tap_count[b] >= 5
    /\ Posted(it.s1, it.s2) = <<FIVETAP[b]>>
    /\ tap_count[b] = 0

AllTapGestures == TapGestures("B1") \cup TapGestures("B2")
\* the latest iteration processed a PRESS edge of b
PressOf(b) == it.edge = [btn |-> b, is_press |-> TRUE]

\* C3: a press that follows the press of the other button by at most 180 ms
\* while detection is armed makes a chord pending; a release that leaves the
\* other button down while the chord is pending queues no Chord and no tap
\* gesture and tallies nothing; the release that leaves both buttons up queues
\* exactly one Chord and no tap gesture and leaves both tallies and both
\* deadlines zero; a chord pending for at most 1 s is not discarded.
C3_ChordQueuedOnce ==
  \A b \in Btn :
    /\ (PressOf(b) /\ it.s0.down[Other(b)] /\ it.s0.press_time[Other(b)] # None
          /\ it.s0.press_time[Other(b)] <= CHORD_GRACE_MS /\ it.s0.chord_armed)
         => /\ it.s1.chord_pending
            /\ it.s1.chord_detect_time = 0
            /\ ~it.s1.chord_armed
            /\ Posted(it.s0, it.s1) = <<>>
    /\ (ReleaseOf(b) /\ it.s0.chord_pending /\ it.s0.down[Other(b)])
         => /\ NoneOf(Posted(it.s0, it.s1), AllTapGestures \cup {CHORD})
            /\ it.s1.tap_count[b] <= it.s0.tap_count[b]
            /\ it.s1.chord_pending
    /\ (ReleaseOf(b) /\ it.s0.chord_pending /\ ~it.s0.down[Other(b)])
         => /\ Count(Posted(it.s0, it.s4), CHORD) = 1
            /\ NoneOf(Posted(it.s0, it.s4), AllTapGestures)
            /\ it.s1.tap_count = [x \in Btn |-> 0]
            /\ it.s1.decide_at = [x \in Btn |-> None]
            /\ ~it.s1.chord_pending
            /\ it.s1.chord_armed
    /\ (it.s2.chord_pending /\ it.s2.chord_detect_time <= CHORD_TIMEOUT)
         => it.s3.chord_pending

\* C3 witness: with a tap tallied before the chord, the release that leaves
\* both buttons up has queued the Chord.
C3_Witness ==
  \E b \in Btn :
    /\ ReleaseOf(b) /\ it.s0.chord_pending /\ ~it.s0.down[Other(b)]
    /\ it.s0.chord_detect_time <= CHORD_TIMEOUT
    /\ \E x \in Btn : it.s0.tap_count[x] > 0
    /\ Posted(it.s0, it.s1) = <<CHORD>>

\* C6: a tap gesture is only queued by an iteration that runs 750 ms or more
\* after the last Chord was queued and that has not itself queued a Chord
\* before it; a deadline that elapses inside the window zeroes tally and
\* deadline without a gesture (no deadline is in fact ever pending inside the
\* window); a qualifying pulse released inside the window is not tallied.
C6_PostChordWindow ==
  /\ LET q == Posted(it.s0, it.s4)
     IN \A i \in 1..Len(q) :
          q[i] \in AllTapGestures
            => /\ it.s0.last_chord_time >= CHORD_TAP_SUPPRESS_WINDOW
               /\ \A j \in 1..i : q[j] # CHORD
  /\ \A b \in Btn :
       /\ (it.s1.decide_at[b] = 0 /\ it.s1.last_chord_time < CHORD_TAP_SUPPRESS_WINDOW)
            => /\ it.s2.tap_count[b] = 0
               /\ it.s2.decide_at[b] = None
               /\ NoneOf(Posted(it.s1, it.s2), TapGestures(b))
       /\ it.s1.last_chord_time < CHORD_TAP_SUPPRESS_WINDOW
            => (it.s1.decide_at[b] = None /\ it.s1.tap_count[b] = 0)
       /\ (ReleaseOf(b) /\ Qualifying(b)
             /\ it.s0.last_chord_time < CHORD_TAP_SUPPRESS_WINDOW)
            => /\ it.s1.tap_count[b] = 0
               /\ it.s1.decide_at[b] = None

\* C6 witness: a qualifying pulse is released less than 750 ms after a Chord
\* was queued, outside any post-hold cooldown.
C6_Witness ==
  \E b \in Btn :
    /\ ReleaseOf(b) /\ Qualifying(b)
    /\ it.s0.last_chord_time > 0
    /\ it.s0.last_chord_time < CHORD_TAP_SUPPRESS_WINDOW
    /\ it.s0.tap_suppress_until[b] = 0
    /\ ~it.s0.chord_pending
    /\ CHORD \in {event_queue[i] : i \in 1..Len(event_queue)}

\* C9 (as stated): a release without a recorded press sets the believed state
\* of the button to up, queues no gesture and leaves the tally and the
\* deadline of the button as they were.
C9_OrphanReleaseKeepsTally ==
  \A b \in Btn :
    OrphanReleaseOf(b)
      => /\ ~it.s1.down[b]
         /\ Posted(it.s0, it.s1) = <<>>
         /\ it.s1.tap_count[b] = it.s0.tap_count[b]
         /\ it.s1.decide_at[b] = it.s0.decide_at[b]

\* C9 (amended): a release without a recorded press sets the believed state
\* of the button to up, queues no gesture, zeroes the tally of the button and
\* clears its deadline, and changes nothing else of the classifier state.
C9_OrphanReleaseZeroesTally ==
  \A b \in Btn :
    OrphanReleaseOf(b)
      => it.s1 = [it.s0 EXCEPT !.down[b] = FALSE, !.press_time[b] = None,
                               !.tap_count[b] = 0, !.decide_at[b] = None]

\* C9 witness: a release without a recorded press has been processed while a
\* tap of that button was tallied, and the loop iteration has run to its end.
C9_Witness ==
  \E b \in Btn :
    /\ OrphanReleaseOf(b)
    /\ it.s0.tap_count[b] > 0 /\ it.s0.decide_at[b] > 0
    /\ tap_count[b] = 0 /\ decide_at[b] = None /\ ~down[b]
    /\ event_queue = <<>>
    /\ get_left = GET_TIMEOUT

\* the dispatcher takes a Chord gesture from the queue in this step
ChordStep ==
  /\ pc = "dispatch"
  /\ event_queue # <<>>
  /\ Head(event_queue) = CHORD
  /\ (pc' # "dispatch" \/ Len(event_queue') < Len(event_queue))
\* the state a Chord toggles to
ChordGoal == IF state = "Dice" THEN "Idle" ELSE "Dice"

\* C10 (as stated): a Chord handled while a state other than Sleep and Dice
\* is active makes Dice the next active state.
C10_ChordAlwaysReachesDice ==
  (pc = "join" /\ target = "Dice") ~> (state = "Dice")

\* C10 (amended): a Chord handled while Sleep is active changes nothing but
\* the queue and is not forwarded; handled in any other state it raises the
\* interrupt flag and starts the transition to Idle when Dice is active and
\* to Dice otherwise; the transition completes with that state active once
\* the body of the old state has returned, which every state but Shutdown
\* does; Shutdown stays the active state for ever.
C10_ChordTogglesDice ==
  /\ [][ChordStep =>
          IF state = "Sleep"
          THEN /\ event_queue' = Tail(event_queue)
               /\ UNCHANGED dspVars
          ELSE IF alive
          THEN /\ pc' = "join" /\ target' = ChordGoal
               /\ interrupt_requested'
               /\ state' = state
          ELSE /\ state' = ChordGoal /\ alive'
               /\ pc' = "dispatch"]_vars
  /\ [][(pc = "join" /\ pc' # "join") => (~alive /\ state' = target /\ alive')]_vars
  /\ [][state = "Shutdown" => state' = "Shutdown"]_vars
  /\ (pc = "join" /\ target = "Dice" /\ state # "Shutdown") ~> (state = "Dice")
  /\ (pc = "join" /\ target = "Idle" /\ state = "Dice") ~> (state = "Idle")

\* C10 witness: a Chord handled while Boot, Sing, Quip or Story was active has made Dice the
\* active state (the body of the old state left its request for Idle behind).
C10_Witness ==
  /\ state = "Dice" /\ alive /\ pc = "dispatch"
  /\ next_state = "Idle"
  /\ ~interrupt_requested

\* ---- observations on the steps of the dispatcher ----
\* this step is dispatch_events taking a gesture from the queue and handling
\* it (no other step of the main thread at this position shortens the queue)
Handling ==
  /\ pc = "dispatch"
  /\ event_queue # <<>>
  /\ Len(event_queue') < Len(event_queue)
\* this step is dispatch_events handling gesture evt
Handles(evt) == Handling /\ Head(event_queue) = evt
\* this step leaves the active state and everything it owns alone
StateKept == UNCHANGED <<state, alive, sleep, dice, shutdown, next_state>>
\* this step starts set_state(cls): it waits for the old body, or, the old
\* body having ended, cls is entered at once
Starts(cls) ==
  \/ /\ alive
     /\ interrupt_requested' /\ pc' = "join" /\ target' = cls
     /\ UNCHANGED <<state, alive>>
  \/ /\ ~alive
     /\ state' = cls /\ alive' /\ ~interrupt_requested' /\ pc' = "dispatch"

\* C11 (as stated): once the dispatcher has started the cue of FiveTap(1),
\* the cue ends and Sleep becomes the active state, whatever state is active.
C11_FiveTapAlwaysReachesSleep ==
  (pc = "cue" /\ target = "Sleep") ~> (state = "Sleep")

\* C11 (amended): handling FiveTap(1) while the active state is not Sleep
\* raises the interrupt flag and starts the cue without touching the active
\* state; the flag stays raised while the cue plays; set_state(Sleep) starts
\* only when the cue has ended, and Sleep is entered in no other way; unless
\* Shutdown is active, Sleep then becomes the active state. While Sleep is
\* active the gesture starts no cue and no transition and goes to the handler
\* of Sleep: after the settle window it requests the wake (once), inside the
\* window it changes nothing.
C11_FiveTapToSleep ==
  /\ [][(Handles(FIVETAP["B1"]) /\ state # "Sleep")
          => /\ interrupt_requested' /\ pc' = "cue" /\ target' = "Sleep"
             /\ StateKept]_vars
  /\ [](pc = "cue" => interrupt_requested)
  /\ [][(pc = "cue" /\ pc' # "cue") => Starts(target)]_vars
  /\ [][(state # "Sleep" /\ state' = "Sleep")
          => /\ target = "Sleep"
             /\ \/ pc = "join"
                \/ pc = "cue" /\ ~alive]_vars
  /\ [][(pc # "join" /\ pc' = "join" /\ target' = "Sleep") => pc = "cue"]_vars
  /\ (pc = "cue" /\ target = "Sleep" /\ state # "Shutdown") ~> (state = "Sleep")
  /\ [][(Handles(FIVETAP["B1"]) /\ state = "Sleep")
          => /\ pc' = "dispatch" /\ target' = NoState
             /\ UNCHANGED <<state, alive, dice, shutdown>>
             /\ IF sleep.settle_until = 0 /\ ~sleep.wake_requested
                THEN /\ sleep'.wake_requested /\ interrupt_requested'
                     /\ next_state' = "Boot"
                ELSE UNCHANGED <<sleep, next_state, interrupt_requested>>]_vars

\* C11 witness: Sleep has just been entered, which only the FiveTap(1) rule
\* does: its body runs, the flag is clear again.
C11_Witness ==
  /\ state = "Sleep" /\ alive /\ pc = "dispatch"
  /\ ~interrupt_requested
  /\ sleep = SleepInit

\* C12: a FiveTap(2) handled less than 2 s after the last Hold of button 2
\* changes nothing; handled 2 s after it or later, the flag is raised, the cue
\* starts, and when it has ended Shutdown becomes the active state, from every
\* state.
C12_FiveTap2Shutdown ==
  /\ [][(Handles(FIVETAP["B2"]) /\ last_hold_time["B2"] < HOLD_TAP_IGNORE_SEC)
          => /\ StateKept
             /\ UNCHANGED <<interrupt_requested, pc, target, current_volume>>]_vars
  /\ [][(Handles(FIVETAP["B2"]) /\ last_hold_time["B2"] >= HOLD_TAP_IGNORE_SEC)
          => /\ interrupt_requested' /\ pc' = "cue" /\ target' = "Shutdown"
             /\ StateKept]_vars
  /\ (pc = "cue" /\ target = "Shutdown") ~> (state = "Shutdown")

\* C13: handling Hold(2) starts set_state(Story), and Story then becomes the
\* active state with its body running, whatever state was active (Shutdown,
\* which is terminal, left aside).
C13_HoldToStory ==
  /\ [][Handles(HOLD["B2"]) => Starts("Story")]_vars
  /\ (pc = "join" /\ target = "Story" /\ state # "Shutdown")
       ~> (state = "Story" /\ alive)

C15_DoubleInterrupt ==
  /\ [][\A b \in Btn :
         (Handles(DOUBLE[b]) /\ state = "Dice")
           => /\ interrupt_requested' => interrupt_requested
              /\ pc' = "dispatch" /\ UNCHANGED <<state, alive, next_state>>
              /\ IF dice.settle_until > 0 THEN dice' = dice
                 ELSE /\ ~interrupt_requested'
                      /\ b = "B2" => /\ dice'.selected_index = 0
                                     /\ dice'.mode = "selection"
                      /\ b = "B1" => /\ dice'.tail = <<>>
                                     /\ [dice' EXCEPT !.tail = dice.tail] = dice]_vars
  /\ [][\A b \in Btn :
         (Handles(DOUBLE[b]) /\ state # "Dice")
           => /\ interrupt_requested'
              /\ pc' = "dispatch" /\ target' = NoState
              /\ StateKept]_vars

\* C15 witness: a Double has been handled while Idle was active: the flag is
\* raised and Idle is still the active state.
C15_Witness ==
  /\ state = "Idle" /\ alive /\ pc = "dispatch"
  /\ interrupt_requested

\* C16: while Idle is active, handling Tap(1) starts the transition to Sing
\* and handling Tap(2) the transition to Quip, and each completes; a Double,
\* the only other gesture that reaches the handler of Idle, starts no
\* transition.
C16_IdleTaps ==
  /\ [][(Handles(TAP["B1"]) /\ state = "Idle") => Starts("Sing")]_vars
  /\ [][(Handles(TAP["B2"]) /\ state = "Idle") => Starts("Quip")]_vars
  /\ [][\A b \in Btn :
         (Handles(DOUBLE[b]) /\ state = "Idle")
           => /\ pc' = "dispatch" /\ target' = NoState
              /\ StateKept]_vars
  /\ (state = "Idle" /\ pc = "join" /\ target = "Sing") ~> (state = "Sing" /\ alive)
  /\ (state = "Idle" /\ pc = "join" /\ target = "Quip") ~> (state = "Quip" /\ alive)

\* C16 witness: the handler of Idle has called set_state(Sing) and the
\* dispatcher waits for the body of Idle to end.
C16_Witness == state = "Idle" /\ pc = "join" /\ target = "Sing"

\* the gestures that dispatch_events hands to the handler of state s
ForwardedIn(s) ==
  {TAP[b] : b \in Btn} \cup {DOUBLE[b] : b \in Btn}
    \cup (IF s = "Sleep" THEN {FIVETAP["B1"]} ELSE {})

\* C18: when a gesture is handled while Sleep is active, its settle window
\* over, and Sleep stays active: a Tap(1) sets the count to one more than
\* before if the previous counted Tap(1) is less than 600 ms old and to 1
\* otherwise, no other gesture changes the count; the wake is requested from
\* then on exactly if it was before, or the gesture is FiveTap(1), or it is a
\* Tap(1) that brings the count to five; a fresh wake request raises the flag
\* and asks for Boot; nothing but the handling of a gesture requests the wake.
C18_SleepWake ==
  /\ [][(Handling /\ state = "Sleep" /\ sleep.settle_until = 0 /\ state' = "Sleep")
           => LET evt == Head(event_queue) IN
              /\ sleep'.wake_taps =
                   (IF evt # TAP["B1"] THEN sleep.wake_taps
                    ELSE IF sleep.last_tap_time < SLEEP_TAP_WINDOW
                    THEN Min(sleep.wake_taps + 1, WAKE_TAPS)
                    ELSE 1)
              /\ sleep'.wake_requested =
                   (\/ sleep.wake_requested
                    \/ evt = FIVETAP["B1"]
                    \/ evt = TAP["B1"] /\ sleep'.wake_taps = WAKE_TAPS)
              /\ (~sleep.wake_requested /\ sleep'.wake_requested)
                   => /\ next_state' = "Boot"
                      /\ interrupt_requested'
                      /\ sleep'.acted]_vars
  /\ [][(state = "Sleep" /\ state' = "Sleep"
         /\ sleep'.wake_requested # sleep.wake_requested) => Handling]_vars
  /\ [](state = "Sleep" /\ sleep.wake_taps = WAKE_TAPS => sleep.wake_requested)

\* C18 witness: Sleep has counted five Tap(1) in a row and requested the wake.
C18_Witness ==
  /\ state = "Sleep" /\ alive
  /\ sleep.wake_taps = WAKE_TAPS
  /\ sleep.wake_requested
  /\ next_state = "Boot"

\* C19: while the settle window of Sleep or Dice is running, the object is as
\* constructed, and handling a gesture that goes to its handler leaves every
\* attribute of the object as it was (nothing counted, requested, selected,
\* rolled, displayed or played), starts no transition and requests no state.
C19_SettleWindow ==
  /\ [](state = "Sleep" /\ sleep.settle_until > 0
          => /\ sleep.wake_taps = 0 /\ ~sleep.wake_requested /\ ~sleep.acted)
  /\ [](state = "Dice" /\ dice.settle_until > 0
          => /\ dice.mode = "selection" /\ dice.selected_index = 0
             /\ dice.last_result = None /\ ~dice.acted)
  /\ [][(Handling /\ Head(event_queue) \in ForwardedIn("Sleep")
         /\ state = "Sleep" /\ sleep.settle_until > 0)
           => /\ sleep' = sleep
              /\ pc' = "dispatch" /\ target' = NoState
              /\ UNCHANGED <<state, alive, next_state>>]_vars
  /\ [][(Handling /\ Head(event_queue) \in ForwardedIn("Dice")
         /\ state = "Dice" /\ dice.settle_until > 0)
           => /\ dice' = dice
              /\ pc' = "dispatch" /\ target' = NoState
              /\ UNCHANGED <<state, alive, next_state, interrupt_requested>>]_vars

\* C19 witness: Dice is inside its settle window and the dispatcher is about
\* to hand a Tap(1) to its handler.
C19_Witness ==
  /\ state = "Dice" /\ alive /\ pc = "dispatch"
  /\ dice.settle_until > 0
  /\ event_queue # <<>> /\ Head(event_queue) = TAP["B1"]

\* C20: once Shutdown is the active state it remains the active state with
\* its body running, whatever is handled; the power-off command is issued at
\* most once, only by Shutdown, and is issued once Shutdown is active.
C20_ShutdownTerminal ==
  /\ [][state = "Shutdown" => (state' = "Shutdown" /\ alive')]_vars
  /\ [](shutdown.poweroffs <= 1)
  /\ [](shutdown.poweroffs = 1 => state = "Shutdown")
  /\ (state = "Shutdown") ~> (shutdown.poweroffs = 1)

\* C20 witness: Shutdown is active, the power-off command has been issued
\* once, and a later gesture has asked for another state.
C20_Witness ==
  /\ state = "Shutdown" /\ alive
  /\ shutdown.poweroffs = 1
  /\ pc = "join" /\ target # "Shutdown"

\* ---- observations on the run of Sing, Quip and Story ----
\* this step leaves the loop test of animate
LoopTested == anim.pc = "loop" /\ anim'.pc # "loop"
\* this step starts a segment: a column is played from its first frame
SegmentStarts ==
  /\ LoopTested
  /\ anim'.pc = "test" /\ ~anim'.last
  /\ anim'.index = 0 /\ anim'.shown = <<>>
\* this step is the return of run()
BodyEnds == alive /\ ~alive'
\* q begins with every frame of one column, first to last, each once
FullSegment(q) ==
  /\ Len(q) >= FramesPerColumn
  /\ \A i \in 1..FramesPerColumn : q[i] = [col |-> q[1].col, row |-> i - 1]
\* what the claim says of segments and of the return of run(): the loop
\* test starts a segment exactly if neither audio_done nor the flag is set;
\* a body that returns asks for Idle, and, if the flag is clear then, the
\* audio has completed and the segment in progress was shown from its first
\* to its last frame in one go
SegmentsAndReturn ==
  /\ [][LoopTested => (SegmentStarts <=> (~interrupt_requested /\ ~anim.audio_done))]_vars
  /\ [][BodyEnds => /\ next_state' = "Idle"
                    /\ ~interrupt_requested
                         => (anim.audio_done /\ FullSegment(anim.shown))]_vars

\* C17 (as stated): segments and the return of run() are as the claim says,
\* and no frame is shown once the interrupt flag is raised.
C17_NoFrameAfterInterrupt ==
  /\ SegmentsAndReturn
  /\ [](anim.late = 0)

\* C17 (amended): segments and the return of run() are as the claim says,
\* and at most one frame is shown once the interrupt flag is raised (the
\* frame whose loop test in play_column had passed before).
C17_Rendezvous ==
  /\ SegmentsAndReturn
  /\ [](anim.late <= 1)

\* C17 witness: run() has returned with the interrupt flag clear, after the
\* animation went through more than one segment.
C17_Witness ==
  /\ anim.pc = "end" /\ ~alive
  /\ ~interrupt_requested
  /\ anim.segments = MaxSegments
  /\ next_state = "Idle"

\* ---- Dice in result mode ----
\* the tail of a result strip, shown to its end
TailFrames == ColumnFrames(FALSE, RESULT_TAIL_START, RESULT_FRAMES)
\* this step is the handler of Dice, past its settle window, taking a gesture
\* in result mode
ResultGesture ==
  /\ Handling
  /\ state = "Dice"
  /\ dice.mode = "result"
  /\ dice.settle_until = 0

\* C22 (the claim as stated): in result mode every Tap and every Double
\* gesture first plays the tail of the current result (frames 3 to 6) to its
\* end, then acts.
C22_TailBeforeEveryGesture ==
  [][(ResultGesture /\ Head(event_queue) \in {TAP["B1"], TAP["B2"],
                                               DOUBLE["B1"], DOUBLE["B2"]})
       => dice'.tail = TailFrames]_vars

\* C22 (amended): in result mode every Tap plays the tail of the current
\* result (frames 3 to 6) to its end and then acts (Tap(1): a new roll,
\* Tap(2): back to the selection of the same die); Double(2) jumps to the
\* selection of the default die without the tail, and Double(1) shows
\* nothing and changes nothing.
C22_TailBeforeTap ==
  [][ResultGesture =>
       LET evt == Head(event_queue) IN
       /\ evt = TAP["B1"] => /\ dice'.tail = TailFrames
                             /\ dice'.mode = "result"
                             /\ dice'.last_result \in Rolls(dice.selected_index)
                             /\ dice'.selected_index = dice.selected_index
       /\ evt = TAP["B2"] => /\ dice'.tail = TailFrames
                             /\ dice'.mode = "selection"
                             /\ dice'.selected_index = dice.selected_index
       /\ evt = DOUBLE["B2"] => /\ dice'.tail = <<>>
                                /\ dice'.mode = "selection"
                                /\ dice'.selected_index = 0
       /\ evt = DOUBLE["B1"] => dice' = [dice EXCEPT !.tail = <<>>]
       /\ state' = "Dice"]_vars

\* C22 witness: a Tap(2) in result mode has played the tail and returned to
\* the selection of a die other than the default one.
C22_Witness ==
  /\ state = "Dice"
  /\ dice.tail = TailFrames
  /\ dice.mode = "selection"
  /\ dice.selected_index # 0

\* ---- transitions, step by step ----
\* this step is the first step of run() of a newly started state thread
Begins == mgr.thread_started /\ ~mgr'.thread_started

\* C27 (the claim as stated): when a state-to-state transition completes (the
\* new state constructed, its run() begun) the gesture queue is empty, also
\* when the classifier queues gestures during the transition.
C27_QueueEmptyAtStart ==
  [][Begins => event_queue = <<>>]_vars

\* C28: at most one run() body executes at any time; the thread of a new
\* state is started only after run() of the previous state has returned.
C28_OneBody ==
  /\ [](mgr.bodies + (IF mgr.thread_started THEN 1 ELSE 0) <= 1)
  /\ [][(~mgr.thread_started /\ mgr'.thread_started)
          => (mgr.bodies = 0 /\ ~alive)]_vars

\* C28 witness: run() of a state entered through set_state (Story) is
\* executing, that of Boot having returned.
C28_Witness ==
  /\ mgr.bodies = 1
  /\ state = "Story"

\* C30 (the claim as stated): whenever run() of a state begins, the interrupt
\* flag is clear.
C30_FlagClearAtStart ==
  [][Begins => ~interrupt_requested]_vars

C29_SetStateCompletes ==
  (pc = "join" /\ state # "Shutdown") ~> (pc # "join")

\* ---- audio ----
\* C23 (the claim as stated, for an interruptable call): play(file,
\* interruptable) returns when the clip has finished or, if interruptable,
\* once the interrupt flag is set: the stream is stopped and the call returns
\* without waiting for the end of the clip.
C23_InterruptEndsPlay ==
  \A t \in Callers :
    (audio.pc[t] = "wait" /\ audio.interruptable[t] /\ interrupt_requested)
      ~> (audio.pc[t] = "idle")

\* C24 (the claim as stated): at most one player process is running at any
\* time, and the module's record of the current session refers to the
\* process that is running.
C24_OneSession ==
  /\ Cardinality(audio.running) <= 1
  /\ audio.running # {} => audio.play_proc \in audio.running

\* ---- the shuffler ----
\* C25 (the claim as stated): for a pool of two or more items and a recency
\* window of one or more, next() called right after observe(x) never returns
\* x.
C25_ObservedNotNext ==
  [][(shuffler.last_op = "observe" /\ shuffler'.last_op = "next")
       => shuffler'.last_item # shuffler.last_item]_vars

\* C26: after any sequence of next() and observe() calls every item of the
\* pool has a weight that is positive and at least min_weight, and is among
\* the items the next draw can return.
C26_PositiveWeights ==
  \A i \in Items :
    /\ Weight(shuffler, i).num > 0
    /\ Weight(shuffler, i).num >= MIN_WEIGHT * (Weight(shuffler, i).den \div 100)
    /\ i \in Choices(shuffler)

\* C26 witness: an item has been picked so often that its weight as built is
\* below min_weight.
C26_Witness ==
  \E i \in Items :
    /\ shuffler.plays[i] > 0
    /\ RawWeight(shuffler, i).num < FloorNum(shuffler, i)

\* ---- the simulator build ----
\* C31 (the claim as stated): in the cooperative build the run() body that
\* is executing is the body of the active state, no transition is performed
\* while a body is executing (that is, from inside its call chain), and once
\* a gesture handled during a frame has changed the active state the body of
\* the new state comes to run.
C31_BodyOfActiveState ==
  /\ [](sim.running # NoState => sim.running = state)
  /\ [][state' # state => sim.running = NoState]_vars
  /\ (sim.running # NoState /\ sim.running # state) ~> (sim.running = state)

\* ---- the pending next state ----
\* C32 (the claim as stated): the scheduler loop applies a pending
\* manager.next_state only when the active state has asked for it, that is
\* when its run() body has returned or, for Sleep, when its handler has
\* requested the wake; a value left by the body of a superseded state is
\* never applied to the state that has superseded it.
C32_NoStaleNextState ==
  [][(pc = "next" /\ next_state # NoState /\ pc' # "next")
       => (~alive \/ (state = "Sleep" /\ sleep.wake_requested))]_vars

\* ---- the resync monitor ----
\* the latest loop iteration has synthesized an edge for button b
Synthesized(b) == it.s4.down[b] # it.s3.down[b]
\* C33 (the claim as stated, the length of the disagreement taken from the
\* iteration itself): the resync synthesizes an edge for a button only when
\* at least 120 ms have passed since the last synthesized edge for it and the
\* raw level has disagreed with the believed state for at least 30 ms; in
\* particular the belief has not changed in the same iteration, where the
\* disagreement would be no older than the iteration.
C33_SynthAfterDisagreement ==
  \A b \in Btn :
    Synthesized(b)
      => /\ it.s3.last_synth_time[b] >= RESYNC_COOLDOWN_MS
         /\ TrackRaw(it.s3, it.s4.last_raw).raw_stable_since[b] >= RESYNC_SAMPLE_MS
         /\ it.s3.down[b] # it.s4.last_raw[b]
         /\ it.s0.down[b] = it.s3.down[b]

\* the level of button b stays as it is and no edge of b is waiting
Quiet(b) ==
  /\ done = Len(plan)
  /\ \A i \in 1..Len(edge_queue) : edge_queue[i].btn # b
\* C34: once the level of a button stays constant and no real edge of it is
\* left, a believed state that differs from the level comes to equal it.
C34_ResyncRepairs ==
  \A b \in Btn : (Quiet(b) /\ down[b] # raw[b]) ~> (down[b] = raw[b])

\* C34 witness: the run is over, no edge is waiting, and the latest iteration,
\* which took no edge, has synthesized the edge that brings the belief of a
\* button to its level.
C34_Witness ==
  \E b \in Btn :
    /\ Quiet(b) /\ edge_queue = <<>> /\ it.edge = NoEdge
    /\ Synthesized(b)
    /\ it.s3.down[b] # raw[b] /\ down[b] = raw[b]

\* the classifier state of the latest iteration before and after the resync
\* of button b (button 1 comes first), and the levels that the iteration read
RawNow == it.s4.last_raw
BeforeResync(b) ==
  IF b = "B1" THEN TrackRaw(it.s3, RawNow)
  ELSE ResyncOne(TrackRaw(it.s3, RawNow), RawNow, "B1")
AfterResync(b) == ResyncOne(BeforeResync(b), RawNow, b)
\* C35: a synthesized edge leaves the classifier state (tallies, deadlines,
\* hold suppression, chord flags, press times, believed levels) and the
\* gesture queue as the real edge of the same button and direction does when
\* it is processed in the same state at the same time; only the time of the
\* last synthesized edge differs.
C35_SynthLikeReal ==
  \A b \in Btn :
    AfterResync(b).down[b] # BeforeResync(b).down[b]
      => AfterResync(b) =
           [ProcessEdge(BeforeResync(b), [btn |-> b, is_press |-> RawNow[b]])
              EXCEPT !.last_synth_time[b] = 0]

\* C35 witness: the latest iteration has synthesized a release whose pulse
\* was tallied as a tap, or one that has posted a pending chord.
C35_Witness ==
  \E b \in Btn :
    /\ AfterResync(b).down[b] # BeforeResync(b).down[b]
    /\ ~RawNow[b]
    /\ \/ AfterResync(b).tap_count[b] > BeforeResync(b).tap_count[b]
       \/ Len(AfterResync(b).event_queue) > Len(BeforeResync(b).event_queue)

\* ---- re-arming of the chord detection ----
\* C36 (the claim as stated): chord detection that a detected chord has
\* disarmed is armed again only in a state where both buttons are believed
\* released.
C36_RearmWhenBothUp ==
  [][(~chord_armed /\ chord_armed') => (~down'["B1"] /\ ~down'["B2"])]_vars

\* ---- chord and hold ----
\* C37 (the claim as stated): an iteration that begins with a chord pending
\* (the iteration whose release resolves the chord included) queues no Hold
\* gesture, for either button.
C37_NoHoldWithChord ==
  it.s0.chord_pending
    => NoneOf(Posted(it.s0, it.s4), {HOLD[b] : b \in Btn})

\* ---- the audio-completion signal ----
\* C38 (the claim as stated): audio_done of a Sing, Quip or Story body is
\* set only when the clip that its audio thread started has played to its
\* natural end.
C38_DoneOnlyAtClipEnd ==
  audio.audio_done => audio.ret["audio_thread"] = "finished"

\* ---- the interrupt flag after a Double ----
\* C39 (the claim as stated): the interrupt flag does not stay raised with no
\* run() body executing: when it is raised, the state is not Shutdown and the
\* body of the active state has returned, then the flag is cleared with a
\* body running again (the body of the same state, or of a successor whose
\* transition has completed), unless a further gesture is queued first.
C39_FlagNotStuck ==
  (interrupt_requested /\ ~alive /\ state # "Shutdown" /\ event_queue = <<>>)
    ~> ((~interrupt_requested /\ alive) \/ event_queue # <<>>)

\* C40: every frame play_column shows in a call made by Sing, Quip or Story
\* has a row index i with start <= i < end and i < frames_per_column (start
\* is frame_index at the call, end is frames_per_column); so a call with
\* start = end shows no frame
C40_FramesInRange ==
  [][Len(anim'.shown) > Len(anim.shown)
       => LET i == anim'.shown[Len(anim'.shown)].row
          IN  /\ anim.frame_index <= i
              /\ i < FramesPerColumn]_vars
====
